---- MODULE Spec2Model ----
(***************************************************************************)
(* A model of the numerical kernel (simps, trapz, integral, lin_interp,    *)
(* lookup_y_from_x) and of the Subband dispersion (Subband::Ek,            *)
(* Subband::k) of qwwad.                                                   *)
(*                                                                         *)
(* A C++ double is modelled as an exact rational [n |-> num, d |-> den]    *)
(* in lowest terms with d > 0, so that equality of two values is equality  *)
(* of the records.  Rounding is not modelled.  sqrt is the one operation   *)
(* that leaves the rationals: it is computed to a fixed resolution.        *)
(*                                                                         *)
(* A function call ends in an outcome [kind, val]: kind is "value" or the  *)
(* C++ exception class thrown, and val is <<r>> for a returned r and <<>>  *)
(* when the call throws.                                                   *)
(***************************************************************************)
EXTENDS Integers, Sequences, FiniteSets, TLC

VARIABLES mpc, mcall, mout, sb, spc, scall, sout,
          rpc, rin, rist, psi_max_iz, subbands, rout,
          dpc, din, dloc, dout,
          epc, ein, ibranch, iv_branch, v_branch, efiles,
          wpc, win, wloc, wout,
          apc, ain, aloc, aout,
          fpc, fin, floc, fout

vars == <<mpc, mcall, mout, sb, spc, scall, sout,
          rpc, rin, rist, psi_max_iz, subbands, rout,
          dpc, din, dloc, dout,
          epc, ein, ibranch, iv_branch, v_branch, efiles,
          wpc, win, wloc, wout,
          apc, ain, aloc, aout,
          fpc, fin, floc, fout>>

mathsVars == <<mpc, mcall, mout>>

subbandVars == <<sb, spc, scall, sout>>

readVars == <<rpc, rin, rist, psi_max_iz, subbands, rout>>

d02DVars == <<dpc, din, dloc, dout>>

efsqwVars == <<epc, ein, ibranch, iv_branch, v_branch, efiles>>

wavefunctionsVars == <<wpc, win, wloc, wout>>

adoVars == <<apc, ain, aloc, aout>>

efiwireVars == <<fpc, fin, floc, fout>>

\* what the steps of one component leave alone
besideMaths ==
    <<subbandVars, readVars, d02DVars, efsqwVars, wavefunctionsVars, adoVars, efiwireVars>>

besideSubband ==
    <<mathsVars, readVars, d02DVars, efsqwVars, wavefunctionsVars, adoVars, efiwireVars>>

besideRead ==
    <<mathsVars, subbandVars, d02DVars, efsqwVars, wavefunctionsVars, adoVars, efiwireVars>>

besideD02D ==
    <<mathsVars, subbandVars, readVars, efsqwVars, wavefunctionsVars, adoVars, efiwireVars>>

besideEfsqw ==
    <<mathsVars, subbandVars, readVars, d02DVars, wavefunctionsVars, adoVars, efiwireVars>>

besideWavefunctions ==
    <<mathsVars, subbandVars, readVars, d02DVars, efsqwVars, adoVars, efiwireVars>>

besideAdo ==
    <<mathsVars, subbandVars, readVars, d02DVars, efsqwVars, wavefunctionsVars, efiwireVars>>

besideEfiwire ==
    <<mathsVars, subbandVars, readVars, d02DVars, efsqwVars, wavefunctionsVars, adoVars>>

(***************************************************************************)
(* Bounds of the model                                                     *)
(***************************************************************************)
\* longest sample sequence handed to simps/trapz/integral
MaxLen == 5
\* longest lookup table
MaxTable == 3
\* reads past the end of a table that are followed before the run is cut
MaxOverrun == 1

(***************************************************************************)
(* double arithmetic                                                       *)
(***************************************************************************)
Abs(i) == IF i < 0 THEN -i ELSE i

\* Euclid's algorithm, as a function so that its arguments are values
gcd[a \in Int, b \in Int] == IF b = 0 THEN a ELSE gcd[b, a % b]

GCD(a, b) == gcd[a, b]

\* the double n/d (d # 0)
rat[n \in Int, d \in Int] ==
    LET g == GCD(Abs(n), Abs(d))
        s == IF d < 0 THEN -1 ELSE 1
    IN  [n |-> (s * n) \div g, d |-> (s * d) \div g]

Rat(n, d) == rat[n, d]

R(i) == [n |-> i, d |-> 1]

RAdd(a, b) == Rat(a.n * b.d + b.n * a.d, a.d * b.d)

RSub(a, b) == Rat(a.n * b.d - b.n * a.d, a.d * b.d)

RMul(a, b) == Rat(a.n * b.n, a.d * b.d)

\* a / b for b # 0
RDiv(a, b) == Rat(a.n * b.d, a.d * b.n)

RNeg(a) == [n |-> -a.n, d |-> a.d]

RLt(a, b) == a.n * b.d < b.n * a.d

RLe(a, b) == a.n * b.d <= b.n * a.d

\* fabs
RAbs(a) == [n |-> Abs(a.n), d |-> a.d]

\* gsl_pow_2
RSqr(a) == RMul(a, a)

(***************************************************************************)
(* Outcomes of a call                                                      *)
(***************************************************************************)
Returns(r) == [kind |-> "value", val |-> <<r>>, what |-> ""]

\* throw cls(what)
Throws(cls, what) == [kind |-> cls, val |-> <<>>, what |-> what]

\* the outcome o of the function that integral handed the samples to
Via(callee, o) == [kind |-> o.kind, val |-> o.val, what |-> o.what, via |-> callee]

\* an outcome as the caller sees it
Seen(o) == [kind |-> o.kind, val |-> o.val, what |-> o.what]

\* y[i] of a std::valarray (0-based)
At(y, i) == y[i + 1]

\* GSL_IS_ODD / GSL_IS_EVEN of gsl_math.h: the lowest bit of n
GSL_IS_ODD(n) == n % 2 = 1

GSL_IS_EVEN(n) == ~GSL_IS_ODD(n)

(***************************************************************************)
(* Leeds::simps, Leeds::trapz, Leeds::integral (qclsim-maths.cpp)          *)
(***************************************************************************)
\* the body of the for loop of simps, from index i with ans accumulated so far
RECURSIVE Leeds_simps_loop(_, _, _)
Leeds_simps_loop(y, i, ans) ==
    IF i < Len(y) - 2
    THEN Leeds_simps_loop(y, i + 2,
             RAdd(ans, RAdd(RAdd(At(y, i), RMul(R(4), At(y, i + 1))), At(y, i + 2))))
    ELSE ans

\* the indices of y that the loop of simps reads, from turn i on
RECURSIVE Leeds_simps_reads(_, _)
Leeds_simps_reads(y, i) ==
    IF i < Len(y) - 2
    THEN {i, i + 1, i + 2} \cup Leeds_simps_reads(y, i + 2)
    ELSE {}

\* simps without its test for an even number of samples
Leeds_simps_NoEvenTest(y, dx) ==
    LET n == Len(y) IN
    IF n < 3
    THEN Throws("runtime_error", "Not enough points for Simpson's rule")
    ELSE Returns(RMul(Leeds_simps_loop(y, 0, R(0)), RDiv(dx, R(3))))

Leeds_simps(y, dx) ==
    LET n == Len(y) IN
    IF n < 3
    THEN Throws("runtime_error", "Not enough points for Simpson's rule")
    ELSE IF GSL_IS_EVEN(n)
    THEN Throws("length_error", "Simpson's rule needs odd number of points")
    ELSE Returns(RMul(Leeds_simps_loop(y, 0, R(0)), RDiv(dx, R(3))))

\* the body of the for loop of trapz
RECURSIVE Leeds_trapz_loop(_, _, _)
Leeds_trapz_loop(y, i, ans) ==
    IF i < Len(y) - 1
    THEN Leeds_trapz_loop(y, i + 1,
             RAdd(ans, RDiv(RAdd(At(y, i), At(y, i + 1)), R(2))))
    ELSE ans

\* the indices of y that the loop of trapz reads, from turn i on
RECURSIVE Leeds_trapz_reads(_, _)
Leeds_trapz_reads(y, i) ==
    IF i < Len(y) - 1
    THEN {i, i + 1} \cup Leeds_trapz_reads(y, i + 1)
    ELSE {}

\* the loop of trapz without the halving of each pair
RECURSIVE Leeds_trapz_loop_NoHalf(_, _, _)
Leeds_trapz_loop_NoHalf(y, i, ans) ==
    IF i < Len(y) - 1
    THEN Leeds_trapz_loop_NoHalf(y, i + 1, RAdd(ans, RAdd(At(y, i), At(y, i + 1))))
    ELSE ans

\* trapz with that loop
Leeds_trapz_NoHalf(y, dx) ==
    LET n == Len(y) IN
    IF n < 2
    THEN Throws("runtime_error", "Need at least two points for trapezium rule")
    ELSE Returns(RMul(Leeds_trapz_loop_NoHalf(y, 0, R(0)), dx))

\* trapz whose length test lets a single sample through
Leeds_trapz_OneSample(y, dx) ==
    LET n == Len(y) IN
    IF n < 1
    THEN Throws("runtime_error", "Need at least two points for trapezium rule")
    ELSE Returns(RMul(Leeds_trapz_loop(y, 0, R(0)), dx))

Leeds_trapz(y, dx) ==
    LET n == Len(y) IN
    IF n < 2
    THEN Throws("runtime_error", "Need at least two points for trapezium rule")
    ELSE Returns(RMul(Leeds_trapz_loop(y, 0, R(0)), dx))

\* integral without the parity test of its dispatch
Leeds_integral_NoParity(y, dx) ==
    LET n == Len(y) IN
    IF n < 2
    THEN Via("none", Throws("runtime_error",
                            "Need at least two points for numerical integration."))
    ELSE IF n >= 3
    THEN Via("simps", Leeds_simps(y, dx))
    ELSE Via("trapz", Leeds_trapz(y, dx))

Leeds_integral(y, dx) ==
    LET n == Len(y) IN
    IF n < 2
    THEN Via("none", Throws("runtime_error",
                            "Need at least two points for numerical integration."))
    ELSE IF GSL_IS_ODD(n) /\ n >= 3
    THEN Via("simps", Leeds_simps(y, dx))
    ELSE Via("trapz", Leeds_trapz(y, dx))

(***************************************************************************)
(* QWWAD::simps, QWWAD::trapz, QWWAD::integral (maths-helpers.h), with     *)
(* complex_type = real_type = double                                       *)
(***************************************************************************)
RECURSIVE QWWAD_simps_loop(_, _, _)
QWWAD_simps_loop(y, i, ans) ==
    IF i < Len(y) - 2
    THEN QWWAD_simps_loop(y, i + 2,
             RAdd(ans, RAdd(RAdd(At(y, i), RMul(R(4), At(y, i + 1))), At(y, i + 2))))
    ELSE ans

RECURSIVE QWWAD_simps_reads(_, _)
QWWAD_simps_reads(y, i) ==
    IF i < Len(y) - 2
    THEN {i, i + 1, i + 2} \cup QWWAD_simps_reads(y, i + 2)
    ELSE {}

\* the loop of simps with the middle sample weighted 2
RECURSIVE QWWAD_simps_loop_Weight2(_, _, _)
QWWAD_simps_loop_Weight2(y, i, ans) ==
    IF i < Len(y) - 2
    THEN QWWAD_simps_loop_Weight2(y, i + 2,
             RAdd(ans, RAdd(RAdd(At(y, i), RMul(R(2), At(y, i + 1))), At(y, i + 2))))
    ELSE ans

\* simps with that loop
QWWAD_simps_Weight2(y, dx) ==
    LET n == Len(y) IN
    IF n < 3
    THEN Throws("runtime_error", "Not enough points for Simpson's rule")
    ELSE IF GSL_IS_EVEN(n)
    THEN Throws("length_error", "Simpson's rule needs odd number of points")
    ELSE Returns(RMul(QWWAD_simps_loop_Weight2(y, 0, R(0)), RDiv(dx, R(3))))

QWWAD_simps(y, dx) ==
    LET n == Len(y) IN
    IF n < 3
    THEN Throws("runtime_error", "Not enough points for Simpson's rule")
    ELSE IF GSL_IS_EVEN(n)
    THEN Throws("length_error", "Simpson's rule needs odd number of points")
    ELSE Returns(RMul(QWWAD_simps_loop(y, 0, R(0)), RDiv(dx, R(3))))

RECURSIVE QWWAD_trapz_loop(_, _, _)
QWWAD_trapz_loop(y, i, ans) ==
    IF i < Len(y) - 1
    THEN QWWAD_trapz_loop(y, i + 1,
             RAdd(ans, RDiv(RAdd(At(y, i), At(y, i + 1)), R(2))))
    ELSE ans

RECURSIVE QWWAD_trapz_reads(_, _)
QWWAD_trapz_reads(y, i) ==
    IF i < Len(y) - 1
    THEN {i, i + 1} \cup QWWAD_trapz_reads(y, i + 1)
    ELSE {}

\* trapz without ans *= dx
QWWAD_trapz_Unscaled(y, dx) ==
    LET n == Len(y) IN
    IF n < 2
    THEN Throws("runtime_error", "Need at least two points for trapezium rule")
    ELSE Returns(QWWAD_trapz_loop(y, 0, R(0)))

QWWAD_trapz(y, dx) ==
    LET n == Len(y) IN
    IF n < 2
    THEN Throws("runtime_error", "Need at least two points for trapezium rule")
    ELSE Returns(RMul(QWWAD_trapz_loop(y, 0, R(0)), dx))

QWWAD_integral(y, dx) ==
    LET n == Len(y) IN
    IF n < 2
    THEN Via("none", Throws("runtime_error",
                            "Need at least two points for numerical integration."))
    ELSE IF GSL_IS_ODD(n) /\ n >= 3
    THEN Via("simps", QWWAD_simps(y, dx))
    ELSE Via("trapz", QWWAD_trapz(y, dx))

\* the function a call names: ns is the namespace, fn the function
Apply(ns, fn, y, dx) ==
    CASE ns = "Leeds" /\ fn = "simps"    -> Leeds_simps(y, dx)
      [] ns = "Leeds" /\ fn = "trapz"    -> Leeds_trapz(y, dx)
      [] ns = "Leeds" /\ fn = "integral" -> Leeds_integral(y, dx)
      [] ns = "QWWAD" /\ fn = "simps"    -> QWWAD_simps(y, dx)
      [] ns = "QWWAD" /\ fn = "trapz"    -> QWWAD_trapz(y, dx)
      [] ns = "QWWAD" /\ fn = "integral" -> QWWAD_integral(y, dx)

\* the indices of y read by the loop of the function a call names
Reads(ns, fn, y) ==
    CASE ns = "Leeds" /\ fn = "simps" -> Leeds_simps_reads(y, 0)
      [] ns = "Leeds" /\ fn = "trapz" -> Leeds_trapz_reads(y, 0)
      [] ns = "QWWAD" /\ fn = "simps" -> QWWAD_simps_reads(y, 0)
      [] ns = "QWWAD" /\ fn = "trapz" -> QWWAD_trapz_reads(y, 0)

(***************************************************************************)
(* Leeds::lin_interp                                                       *)
(***************************************************************************)
\* lin_interp with the open range 0 < x < 1 of its comment
lin_interp_OpenRange(y0, y1, x, b) ==
    IF RLe(x, R(0)) \/ RLe(R(1), x)
    THEN Throws("domain_error", "x value out of range")
    ELSE Returns(RAdd(RAdd(RMul(y0, RSub(R(1), x)), RMul(y1, x)),
                      RMul(RMul(b, x), RSub(R(1), x))))

lin_interp(y0, y1, x, b) ==
    IF RLt(x, R(0)) \/ RLt(R(1), x)
    THEN Throws("domain_error", "x value out of range")
    ELSE Returns(RAdd(RAdd(RMul(y0, RSub(R(1), x)), RMul(y1, x)),
                      RMul(RMul(b, x), RSub(R(1), x))))

(***************************************************************************)
(* Leeds::lookup_y_from_x                                                  *)
(*                                                                         *)
(* x_values[ix] with ix past the end of the valarray is undefined          *)
(* behaviour: the read yields whatever lies behind the array, or the       *)
(* process is killed.  The memory behind a table of n entries is a         *)
(* nondeterministic extension of the table; an outcome records in `last`   *)
(* the highest index the search and the interpolation read (-1: none).     *)
(***************************************************************************)
\* what a read past the end of a table may yield
Garbage == {R(-1), R(1), R(7)}

RECURSIVE SeqMax(_)
SeqMax(xs) ==
    IF Len(xs) = 1 THEN xs[1]
    ELSE LET m == SeqMax(Tail(xs)) IN IF RLt(m, xs[1]) THEN xs[1] ELSE m

RECURSIVE SeqMin(_)
SeqMin(xs) ==
    IF Len(xs) = 1 THEN xs[1]
    ELSE LET m == SeqMin(Tail(xs)) IN IF RLt(xs[1], m) THEN xs[1] ELSE m

\* while (x0 >= x_values[ix]) ix++;  over the memory X, cut at its end
RECURSIVE lookup_scan(_, _, _)
lookup_scan(X, x0, ix) ==
    IF ix >= Len(X) THEN ix
    ELSE IF RLe(At(X, ix), x0) THEN lookup_scan(X, x0, ix + 1)
    ELSE ix

Looked(o, ix, last) ==
    [kind |-> o.kind, val |-> o.val, what |-> o.what, ix |-> ix, last |-> last]

\* one run of lookup_y_from_x on a table of n entries lying in the memory X, Y
lookup_run(X, Y, n, x0) ==
    LET x_values == SubSeq(X, 1, n) IN
    IF RLt(SeqMax(x_values), x0) \/ RLt(x0, SeqMin(x_values))
    THEN Looked(Throws("domain_error", "Desired x value is out of range"), 0, -1)
    ELSE LET ix == lookup_scan(X, x0, 0) IN
         IF ix >= Len(X)
         THEN Looked(Throws("killed", "read far past the end of x_values"), ix, ix - 1)
         ELSE IF ix = 0
         THEN Looked(Returns(At(Y, 0)), ix, 0)
         ELSE Looked(Returns(RAdd(At(Y, ix - 1),
                        RDiv(RMul(RSub(At(Y, ix), At(Y, ix - 1)),
                                  RSub(x0, At(X, ix - 1))),
                             RSub(At(X, ix), At(X, ix - 1))))), ix, ix)

\* the memory behind x_values: MaxOverrun + 1 further doubles
Behind == [1..(MaxOverrun + 1) -> Garbage]

\* the memory behind y_values, of which the interpolation reads one double
BehindY == {[i \in 1..(MaxOverrun + 1) |-> g] : g \in Garbage}

\* every outcome a build can produce: a run that reads nothing past the end of
\* the table does not depend on what lies there
lookup_y_from_x(x_values, y_values, x0) ==
    LET n    == Len(x_values)
        some == lookup_run(x_values \o (CHOOSE ex \in Behind : TRUE),
                           y_values \o (CHOOSE ey \in BehindY : TRUE), n, x0)
        runs == IF some.last < n
                THEN {some}
                ELSE {lookup_run(x_values \o ex, y_values \o ey, n, x0) :
                          ex \in Behind, ey \in BehindY}
    IN  runs \cup {Looked(Throws("killed", "read past the end of x_values"), o.ix, o.last) :
                     o \in {r \in runs : r.last >= n}}

(***************************************************************************)
(* Inputs of the numerical kernel                                          *)
(***************************************************************************)
Namespaces == {"Leeds", "QWWAD"}

SampleVals == {R(-1), R(0), R(2)}

Steps == {R(1), R(2), Rat(1, 2)}

SampleSeqs == UNION {[1..n -> SampleVals] : n \in 0..MaxLen}

\* polynomials a[0] + a[1] x + a[2] x^2 + a[3] x^3
Polys == [0..3 -> {-1, 0, 1}]

PolyStarts == {R(0), R(-1)}

PolyEval(a, x) ==
    RAdd(R(a[0]), RMul(x, RAdd(R(a[1]), RMul(x, RAdd(R(a[2]), RMul(x, R(a[3])))))))

\* n samples of a, the first at x0, dx apart
PolySample(a, x0, dx, n) == [j \in 1..n |-> PolyEval(a, RAdd(x0, RMul(R(j - 1), dx)))]

\* the primitive of a that is 0 at 0
PolyPrimitive(a, x) ==
    RMul(x, RAdd(R(a[0]), RMul(x, RAdd(Rat(a[1], 2),
         RMul(x, RAdd(Rat(a[2], 3), RMul(x, Rat(a[3], 4))))))))

\* the analytic integral of a over the n samples that start at x0
PolyIntegral(a, x0, dx, n) ==
    RSub(PolyPrimitive(a, RAdd(x0, RMul(R(n - 1), dx))), PolyPrimitive(a, x0))

PolySeqs(dx) ==
    {PolySample(a, x0, dx, n) : a \in Polys, x0 \in PolyStarts, n \in 2..MaxLen}

\* ascending tables of 1..MaxTable entries
TableXVals == {R(0), R(1), R(2)}

TableYVals == {R(0), R(1), R(4)}

Ascending(xs) == \A i \in 1..(Len(xs) - 1) : RLe(xs[i], xs[i + 1])

StrictlyAscending(xs) == \A i \in 1..(Len(xs) - 1) : RLt(xs[i], xs[i + 1])

TableXs == {xs \in UNION {[1..n -> TableXVals] : n \in 1..MaxTable} : Ascending(xs)}

LookupX0s == {Rat(i, 2) : i \in -1..5}

InterpYs == {R(-1), R(0), R(3)}

InterpXs == {Rat(-1, 2), Rat(-1, 100), R(0), Rat(1, 3), Rat(1, 2), R(1), Rat(101, 100), R(2)}

InterpBs == {R(0), R(1), R(-2)}

(***************************************************************************)
(* The numerical kernel as a state machine: a caller makes one call and    *)
(* takes its outcome                                                       *)
(***************************************************************************)
MathsIdle ==
    /\ mpc = "idle"
    /\ mcall = [fn |-> "none"]
    /\ mout = [kind |-> "none"]

Call(c, o) ==
    /\ mpc' = "done"
    /\ mcall' = c
    /\ mout' = o

CallSimps ==
    /\ mpc = "idle"
    /\ \E ns \in Namespaces, y \in SampleSeqs, dx \in Steps :
           Call([fn |-> "simps", ns |-> ns, y |-> y, dx |-> dx], Apply(ns, "simps", y, dx))
    /\ UNCHANGED besideMaths

CallTrapz ==
    /\ mpc = "idle"
    /\ \E ns \in Namespaces, y \in SampleSeqs, dx \in Steps :
           Call([fn |-> "trapz", ns |-> ns, y |-> y, dx |-> dx], Apply(ns, "trapz", y, dx))
    /\ UNCHANGED besideMaths

CallIntegral ==
    /\ mpc = "idle"
    /\ \E ns \in Namespaces, dx \in Steps :
         \E y \in SampleSeqs \cup PolySeqs(dx) :
           Call([fn |-> "integral", ns |-> ns, y |-> y, dx |-> dx],
                Apply(ns, "integral", y, dx))
    /\ UNCHANGED besideMaths

CallLinInterp ==
    /\ mpc = "idle"
    /\ \E y0 \in InterpYs, y1 \in InterpYs, x \in InterpXs, b \in InterpBs :
           Call([fn |-> "lin_interp", y0 |-> y0, y1 |-> y1, x |-> x, b |-> b],
                lin_interp(y0, y1, x, b))
    /\ UNCHANGED besideMaths

CallLookup ==
    /\ mpc = "idle"
    /\ \E xs \in TableXs, x0 \in LookupX0s :
         \E ys \in [1..Len(xs) -> TableYVals] :
           \E o \in lookup_y_from_x(xs, ys, x0) :
             Call([fn |-> "lookup_y_from_x", x_values |-> xs, y_values |-> ys, x0 |-> x0], o)
    /\ UNCHANGED besideMaths

\* the caller takes the outcome
MathsReturn ==
    /\ mpc = "done"
    /\ mpc' = "idle"
    /\ mcall' = [fn |-> "none"]
    /\ mout' = [kind |-> "none"]
    /\ UNCHANGED besideMaths

(***************************************************************************)
(* Leeds::Subband (qclsim-subband.cpp)                                     *)
(*                                                                         *)
(* Units: wave-vectors in 1e-9 m^-1 and energies in 1e-9 eV, the two       *)
(* tolerances of Ek and k, with hBar = 1; the unit of mass follows.        *)
(***************************************************************************)
hBar == R(1)

\* numerical_error of Subband::Ek, 1e-9 [1/m]
numerical_error_k == R(1)

\* numerical_error of Subband::k, 1e-9*e [J]
numerical_error_E == R(1)

\* sqrt is computed to 1/SqrtRes
SqrtRes == 1000

\* the result of sqrt of a negative number, and of arithmetic on it
NaN == [n |-> 0, d |-> 0]

\* the largest s in lo..hi with s*s <= v
RECURSIVE ISqrt(_, _, _)
ISqrt(v, lo, hi) ==
    IF lo >= hi THEN lo
    ELSE LET mid == (lo + hi + 1) \div 2 IN
         IF mid * mid <= v THEN ISqrt(v, mid, hi) ELSE ISqrt(v, lo, mid - 1)

\* <<q, r>> with n*m = q*d + r and 0 <= r < d, for n, m >= 0 and d > 0,
\* by doubling, so that no intermediate product leaves the machine integers
RECURSIVE MulDiv(_, _, _)
MulDiv(n, m, d) ==
    IF m = 0 THEN <<0, 0>>
    ELSE LET h == MulDiv(n, m \div 2, d)
             r == 2 * h[2] + (IF m % 2 = 1 THEN n % d ELSE 0)
             q == 2 * h[1] + (IF m % 2 = 1 THEN n \div d ELSE 0)
         IN  <<q + r \div d, r % d>>

\* sqrt
RSqrt(a) ==
    IF a.n < 0 THEN NaN
    ELSE Rat(ISqrt(MulDiv(a.n, SqrtRes * SqrtRes, a.d)[1], 0, 46340), SqrtRes)

\* the Subband a read-only call is made on
SubbandIdle ==
    /\ spc = "idle"
    /\ scall = [fn |-> "none"]
    /\ sout = [kind |-> "none"]

\* Subband::Subband: ground_state (its energy, get_E()), Ef, population, md_0,
\* alphad, condband_edge
Subband(E, Ef, population, md_0, alphad, condband_edge) ==
    [E |-> E, Ef |-> Ef, population |-> population, md_0 |-> md_0,
     alphad |-> alphad, condband_edge |-> condband_edge]

StateEnergies == {R(-1), R(0), R(2)}

BandEdges == {R(-1), R(0), R(1)}

Alphads == {R(-1), R(0), Rat(1, 2), R(1)}

Masses == {R(1), Rat(1, 2)}

\* the populations handed to the constructor, and the lines of the
\* populations file
Populations == {R(-1), R(1)}

Subbands ==
    {Subband(E, R(0), P, m, a, V) :
        E \in StateEnergies, P \in Populations, m \in Masses,
        a \in Alphads, V \in BandEdges}

WaveVectors == {R(-2), R(-1), Rat(-1, 2), R(0), Rat(1, 2), R(1), R(2), R(3)}

KineticEnergies == {R(-2), Rat(-1, 2), R(0), Rat(1, 2), R(1), R(2), R(4)}

\* the outcome o of Ek; sqrt_of holds the argument of each call of sqrt
Rooted(o, sqrt_of) ==
    [kind |-> o.kind, val |-> o.val, what |-> o.what, sqrt_of |-> sqrt_of]

\* Ek with its tolerance test on k itself instead of fabs(k)
Subband_Ek_NoFabs(self, k) ==
    IF RLt(k, numerical_error_k)
    THEN Rooted(Returns(R(0)), <<>>)
    ELSE IF self.alphad = R(0)
    THEN Rooted(Returns(RDiv(RSqr(RMul(k, hBar)), RMul(R(2), self.md_0))), <<>>)
    ELSE LET b == RAdd(R(1), RMul(self.alphad, RSub(self.E, self.condband_edge)))
             four_ac == RMul(RMul(R(4), self.alphad),
                             RNeg(RDiv(RSqr(RMul(hBar, k)), RMul(R(2), self.md_0))))
         IN  IF RLt(RMul(b, b), four_ac)
             THEN Rooted(Throws("domain_error", "No real energy solution exists"), <<>>)
             ELSE LET disc == RSub(RMul(b, b), four_ac)
                      root == RSqrt(disc)
                  IN  IF RLt(b, root)
                      THEN Rooted(Returns(RDiv(RAdd(RNeg(b), root),
                                               RMul(R(2), self.alphad))), <<disc>>)
                      ELSE Rooted(Throws("domain_error", "Negative energy found"),
                                  <<disc>>)

Subband_Ek(self, k) ==
    IF RLt(RAbs(k), numerical_error_k)
    THEN Rooted(Returns(R(0)), <<>>)
    ELSE IF self.alphad = R(0)
    THEN Rooted(Returns(RDiv(RSqr(RMul(k, hBar)), RMul(R(2), self.md_0))), <<>>)
    ELSE LET b == RAdd(R(1), RMul(self.alphad, RSub(self.E, self.condband_edge)))
             four_ac == RMul(RMul(R(4), self.alphad),
                             RNeg(RDiv(RSqr(RMul(hBar, k)), RMul(R(2), self.md_0))))
         IN  IF RLt(RMul(b, b), four_ac)
             THEN Rooted(Throws("domain_error", "No real energy solution exists"), <<>>)
             ELSE LET disc == RSub(RMul(b, b), four_ac)
                      root == RSqrt(disc)
                  IN  IF RLt(b, root)
                      THEN Rooted(Returns(RDiv(RAdd(RNeg(b), root),
                                               RMul(R(2), self.alphad))), <<disc>>)
                      ELSE Rooted(Throws("domain_error", "Negative energy found"),
                                  <<disc>>)

\* sqrt(a)/hBar
RootOverHBar(a) == IF a.n < 0 THEN NaN ELSE RDiv(RSqrt(a), hBar)

\* k with 2*md_0 read as md_0
Subband_k_NoFactor2(self, Ek) ==
    IF RLt(Ek, R(0))
    THEN Throws("domain_error", "Cannot find wavevector at negative kinetic energy")
    ELSE IF RLt(RAbs(Ek), numerical_error_E)
    THEN Returns(R(0))
    ELSE IF self.alphad = R(0)
    THEN Returns(RootOverHBar(RMul(Ek, self.md_0)))
    ELSE Returns(RootOverHBar(
             RMul(RMul(Ek, self.md_0),
                  RAdd(R(1), RMul(self.alphad,
                                  RSub(RAdd(self.E, Ek), self.condband_edge))))))

\* k without its test for a negative energy
Subband_k_NoSignTest(self, Ek) ==
    IF RLt(RAbs(Ek), numerical_error_E)
    THEN Returns(R(0))
    ELSE IF self.alphad = R(0)
    THEN Returns(RootOverHBar(RMul(RMul(Ek, R(2)), self.md_0)))
    ELSE Returns(RootOverHBar(
             RMul(RMul(RMul(Ek, R(2)), self.md_0),
                  RAdd(R(1), RMul(self.alphad,
                                  RSub(RAdd(self.E, Ek), self.condband_edge))))))

Subband_k(self, Ek) ==
    IF RLt(Ek, R(0))
    THEN Throws("domain_error", "Cannot find wavevector at negative kinetic energy")
    ELSE IF RLt(RAbs(Ek), numerical_error_E)
    THEN Returns(R(0))
    ELSE IF self.alphad = R(0)
    THEN Returns(RootOverHBar(RMul(RMul(Ek, R(2)), self.md_0)))
    ELSE Returns(RootOverHBar(
             RMul(RMul(RMul(Ek, R(2)), self.md_0),
                  RAdd(R(1), RMul(self.alphad,
                                  RSub(RAdd(self.E, Ek), self.condband_edge))))))

(***************************************************************************)
(* A Subband as a state machine: it is constructed, and then its const     *)
(* member functions are called on it                                       *)
(***************************************************************************)
\* no read_from_file in progress
ReadIdle ==
    /\ rpc = "idle"
    /\ rin = [overload |-> "none"]
    /\ rist = 0
    /\ psi_max_iz = <<>>
    /\ subbands = <<>>
    /\ rout = [kind |-> "none"]

\* d02D is not run
D02DOff ==
    /\ dpc = "off"
    /\ din = <<>>
    /\ dloc = <<>>
    /\ dout = <<>>

\* efsqw is not run
EfsqwOff ==
    /\ epc = "off"
    /\ ein = <<>>
    /\ ibranch = 0
    /\ iv_branch = 0
    /\ v_branch = <<>>
    /\ efiles = <<>>

\* wavefunctions() of d02D is not called
WavefunctionsOff ==
    /\ wpc = "off"
    /\ win = <<>>
    /\ wloc = <<>>
    /\ wout = <<>>

\* ado is not run
AdoOff ==
    /\ apc = "off"
    /\ ain = <<>>
    /\ aloc = <<>>
    /\ aout = <<>>

\* efiwire is not run
EfiwireOff ==
    /\ fpc = "off"
    /\ fin = <<>>
    /\ floc = <<>>
    /\ fout = <<>>

\* none of the three is running
ProgramsOff == WavefunctionsOff /\ AdoOff /\ EfiwireOff

InitSubband ==
    /\ sb \in Subbands
    /\ SubbandIdle
    /\ MathsIdle
    /\ ReadIdle
    /\ D02DOff
    /\ EfsqwOff
    /\ ProgramsOff

CallEk ==
    /\ spc = "idle"
    /\ \E k \in WaveVectors :
        /\ scall' = [fn |-> "Ek", k |-> k]
        /\ sout' = Subband_Ek(sb, k)
    /\ spc' = "done"
    /\ UNCHANGED <<sb, besideSubband>>

CallK ==
    /\ spc = "idle"
    /\ \E Ek \in KineticEnergies :
        /\ scall' = [fn |-> "k", Ek |-> Ek]
        /\ sout' = Subband_k(sb, Ek)
    /\ spc' = "done"
    /\ UNCHANGED <<sb, besideSubband>>

\* the energy that Ek returned is handed back to k, for the wave-vector "of"
CallKOfEk ==
    /\ spc = "done"
    /\ scall.fn = "Ek"
    /\ sout.kind = "value"
    /\ scall' = [fn |-> "k", Ek |-> sout.val[1], of |-> scall.k]
    /\ sout' = Subband_k(sb, sout.val[1])
    /\ spc' = "done"
    /\ UNCHANGED <<sb, besideSubband>>

\* the caller takes the outcome
SubbandReturn ==
    /\ spc = "done"
    /\ spc' = "idle"
    /\ scall' = [fn |-> "none"]
    /\ sout' = [kind |-> "none"]
    /\ UNCHANGED <<sb, besideSubband>>

NextSubband ==
    \/ CallEk
    \/ CallK
    \/ CallKOfEk
    \/ SubbandReturn

SpecSubband == InitSubband /\ [][NextSubband]_vars

\* no Subband is made while the kernel alone is exercised
NoSubband == Subband(R(0), R(0), R(0), R(1), R(0), R(0))

InitMaths ==
    /\ MathsIdle /\ SubbandIdle /\ sb = NoSubband /\ ReadIdle /\ D02DOff /\ EfsqwOff
    /\ ProgramsOff

NextMaths ==
    \/ CallSimps
    \/ CallTrapz
    \/ CallIntegral
    \/ CallLinInterp
    \/ CallLookup
    \/ MathsReturn

SpecMaths == InitMaths /\ [][NextMaths]_vars

(***************************************************************************)
(* Subband::read_from_file, both overloads: the tables are read, then the  *)
(* populations are checked and the sizes compared (in the order of each    *)
(* overload), then the Subbands are appended one by one                    *)
(***************************************************************************)
\* most eigenstates read from the energy and wavefunction files
MaxStates == 2

\* an eigenstate: its energy and its wavefunction on the grid
State(E, psi) == [E |-> E, psi |-> psi]

WaveFunctions ==
    {<<R(0), R(0), R(0)>>, <<R(1), R(-2), R(2)>>, <<R(-1), R(1), R(0)>>}

\* State::read_from_file: state ist has energy ist
GroundStates ==
    UNION {{[i \in 1..n |-> State(R(i - 1), w[i])] : w \in [1..n -> WaveFunctions]} :
           n \in 0..MaxStates}

PopulationTables == UNION {[1..n -> Populations] : n \in 0..(MaxStates + 1)}

\* the second column of the Fermi-energy file
FermiTables == {[i \in 1..n |-> R(0)] : n \in 0..(MaxStates + 1)}

\* the profiles of mass, nonparabolicity and band edge on the grid
m_d_z == <<R(1), Rat(1, 2), R(2)>>

alphad_z == <<R(0), Rat(1, 2), R(1)>>

V_z == <<R(0), R(1), R(-1)>>

Overloads == {"parabolic", "nonparabolic"}

\* throw cls(what): the vector of Subbands is unwound with the call
Fails(cls, what) == [kind |-> cls, subbands |-> <<>>, what |-> what]

\* the process is ended by the read of memory that is not the table's
Killed == [kind |-> "killed", subbands |-> <<>>, what |-> <<>>]

\* check_positive: a population must not be negative
check_positive(x) == IF RLt(x, R(0)) THEN "throws" ELSE "passes"

\* the inner loop with >= for >: the last index at which |psi| is largest
RECURSIVE psi_max_loop_LastMax(_, _, _, _)
psi_max_loop_LastMax(psi, iz, psi_max, at) ==
    IF iz >= Len(psi) THEN at
    ELSE IF RLe(psi_max, RAbs(At(psi, iz)))
    THEN psi_max_loop_LastMax(psi, iz + 1, RAbs(At(psi, iz)), iz)
    ELSE psi_max_loop_LastMax(psi, iz + 1, psi_max, at)

\* the inner loop: the first index at which |psi| is largest, 0 for no rise
RECURSIVE psi_max_loop(_, _, _, _)
psi_max_loop(psi, iz, psi_max, at) ==
    IF iz >= Len(psi) THEN at
    ELSE IF RLt(psi_max, RAbs(At(psi, iz)))
    THEN psi_max_loop(psi, iz + 1, RAbs(At(psi, iz)), iz)
    ELSE psi_max_loop(psi, iz + 1, psi_max, at)

nst == Len(rin.ground_state)

\* the call: all the files are read
ReadFromFile ==
    /\ rpc = "idle"
    /\ \E o \in Overloads, g \in GroundStates,
          P \in PopulationTables, Ef \in FermiTables :
        /\ rin' = [overload |-> o, ground_state |-> g, P |-> P, Ef |-> Ef]
        /\ psi_max_iz' = [i \in 1..Len(g) |-> 0]
    /\ rpc' = IF rin'.overload = "parabolic" THEN "sizes" ELSE "check"
    /\ rist' = 0
    /\ subbands' = <<>>
    /\ rout' = [kind |-> "none"]
    /\ UNCHANGED besideRead

\* if(P.size() != nst or Ef.size() != nst) throw
CheckSizes ==
    /\ rpc = "sizes"
    /\ IF Len(rin.P) # nst \/ Len(rin.Ef) # nst
       THEN /\ rpc' = "failed"
            /\ rout' = Fails("runtime_error",
                             <<"lines", Len(rin.P), Len(rin.Ef), nst>>)
       ELSE /\ rpc' = IF rin.overload = "parabolic" THEN "check" ELSE "copy"
            /\ rout' = rout
    /\ UNCHANGED <<rin, rist, psi_max_iz, subbands, besideRead>>

\* P[ist]: an entry of the table, or whatever lies behind a shorter table
ReadP(ist) == IF ist < Len(rin.P) THEN {At(rin.P, ist)} ELSE Garbage

\* the first loop without its call of check_positive
CheckPopulation_Unchecked ==
    /\ rpc = "check"
    /\ rist < nst
    /\ \/ \E v \in ReadP(rist) :
            /\ psi_max_iz' =
                   [psi_max_iz EXCEPT ![rist + 1] =
                       psi_max_loop(At(rin.ground_state, rist).psi, 0, R(0), 0)]
            /\ rist' = rist + 1
            /\ UNCHANGED <<rpc, rout>>
       \/ /\ rist >= Len(rin.P)
          /\ rpc' = "failed"
          /\ rout' = Killed
          /\ UNCHANGED <<rist, psi_max_iz>>
    /\ UNCHANGED <<rin, subbands, besideRead>>

\* one turn of the first loop: check_positive(&P[ist]) and the search of psi
CheckPopulation ==
    /\ rpc = "check"
    /\ rist < nst
    /\ \/ \E v \in ReadP(rist) :
            IF check_positive(v) = "throws"
            THEN /\ rpc' = "failed"
                 /\ rout' = Fails("domain_error", <<"value", v>>)
                 /\ UNCHANGED <<rist, psi_max_iz>>
            ELSE /\ psi_max_iz' =
                       [psi_max_iz EXCEPT ![rist + 1] =
                           psi_max_loop(At(rin.ground_state, rist).psi, 0, R(0), 0)]
                 /\ rist' = rist + 1
                 /\ UNCHANGED <<rpc, rout>>
       \/ /\ rist >= Len(rin.P)
          /\ rpc' = "failed"
          /\ rout' = Killed
          /\ UNCHANGED <<rist, psi_max_iz>>
    /\ UNCHANGED <<rin, subbands, besideRead>>

\* the first loop is left
CheckedAll ==
    /\ rpc = "check"
    /\ rist = nst
    /\ rpc' = IF rin.overload = "parabolic" THEN "copy" ELSE "sizes"
    /\ rist' = 0
    /\ UNCHANGED <<rin, psi_max_iz, subbands, rout, besideRead>>

\* one turn of the second loop: subbands.push_back(Subband(...))
Copy ==
    /\ rpc = "copy"
    /\ rist < nst
    /\ subbands' = Append(subbands,
           LET at == psi_max_iz[rist + 1] IN
           IF rin.overload = "parabolic"
           THEN Subband(At(rin.ground_state, rist).E, At(rin.Ef, rist),
                        At(rin.P, rist), At(m_d_z, at), R(0), R(0))
           ELSE Subband(At(rin.ground_state, rist).E, At(rin.Ef, rist),
                        At(rin.P, rist), At(m_d_z, at),
                        At(alphad_z, at), At(V_z, at)))
    /\ rist' = rist + 1
    /\ UNCHANGED <<rpc, rin, psi_max_iz, rout, besideRead>>

\* return subbands
ReturnSubbands ==
    /\ rpc = "copy"
    /\ rist = nst
    /\ rpc' = "done"
    /\ rout' = [kind |-> "value", subbands |-> subbands, what |-> <<>>]
    /\ UNCHANGED <<rin, rist, psi_max_iz, subbands, besideRead>>

\* the caller takes the outcome; the locals of the call are gone
ReadReturn ==
    /\ rpc \in {"done", "failed"}
    /\ rpc' = "idle"
    /\ rin' = [overload |-> "none"]
    /\ rist' = 0
    /\ psi_max_iz' = <<>>
    /\ subbands' = <<>>
    /\ rout' = [kind |-> "none"]
    /\ UNCHANGED besideRead

InitRead ==
    /\ MathsIdle /\ SubbandIdle /\ sb = NoSubband /\ ReadIdle /\ D02DOff /\ EfsqwOff
    /\ ProgramsOff

NextRead ==
    \/ ReadFromFile
    \/ CheckSizes
    \/ CheckPopulation
    \/ CheckedAll
    \/ Copy
    \/ ReturnSubbands
    \/ ReadReturn

SpecRead == InitRead /\ [][NextRead]_vars

(***************************************************************************)
(* d02D: for each donor position, and for each Bohr radius lambda, the     *)
(* energy is scanned upwards for a change of sign of psi_at_inf, the       *)
(* bracket is narrowed and refined by Newton-Raphson.  Energies are in     *)
(* meV.  The doubles of this program can be infinite or NaN.               *)
(***************************************************************************)
Finite(a) == a.d # 0

Inf(s) == [n |-> s, d |-> 0]

Sgn(a) == IF a.n > 0 THEN 1 ELSE IF a.n < 0 THEN -1 ELSE 0

\* the doubles, with the infinities and NaN
Doubles == [n : Int, d : Int]

\* a + b
DAdd[a \in Doubles, b \in Doubles] ==
    IF a = NaN \/ b = NaN THEN NaN
    ELSE IF ~Finite(a) /\ ~Finite(b) THEN (IF a = b THEN a ELSE NaN)
    ELSE IF ~Finite(a) THEN a
    ELSE IF ~Finite(b) THEN b
    ELSE LET l == (a.d \div GCD(a.d, b.d)) * b.d
         IN  Rat(a.n * (l \div a.d) + b.n * (l \div b.d), l)

\* a - b
DSub[a \in Doubles, b \in Doubles] == DAdd[a, [n |-> -b.n, d |-> b.d]]

\* a * b
DMul[a \in Doubles, b \in Doubles] ==
    IF a = NaN \/ b = NaN THEN NaN
    ELSE IF ~Finite(a) \/ ~Finite(b)
    THEN (IF Sgn(a) * Sgn(b) = 0 THEN NaN ELSE Inf(Sgn(a) * Sgn(b)))
    ELSE Rat(a.n * b.n, a.d * b.d)

\* a / b; a zero divisor is +0
DDiv[a \in Doubles, b \in Doubles] ==
    IF a = NaN \/ b = NaN THEN NaN
    ELSE IF ~Finite(a) /\ ~Finite(b) THEN NaN
    ELSE IF ~Finite(a) THEN Inf(IF Sgn(b) < 0 THEN -Sgn(a) ELSE Sgn(a))
    ELSE IF ~Finite(b) THEN R(0)
    ELSE IF b.n = 0 THEN (IF a.n = 0 THEN NaN ELSE Inf(Sgn(a)))
    ELSE Rat(a.n * b.d, a.d * b.n)

\* a > b; false when either is NaN
DGt[a \in Doubles, b \in Doubles] ==
    IF a = NaN \/ b = NaN THEN FALSE
    ELSE IF ~Finite(a) \/ ~Finite(b)
    THEN (IF ~Finite(a) /\ ~Finite(b) THEN a.n > b.n
          ELSE IF ~Finite(a) THEN a.n > 0 ELSE b.n < 0)
    ELSE a.n * b.d > b.n * a.d

\* fabs
DAbs[a \in Doubles] == [n |-> Abs(a.n), d |-> a.d]

\* a local of main that has not been assigned yet
Uninit == [n |-> 0, d |-> -1]

\* most donor positions in r_d.r
MaxDonors == 2

\* d_E=delta_E/1e+6
DerivativeRatio == 1000000

\* 1e-9*e
NewtonTol == Rat(1, 1000000)

\* x_min=e: 1 eV
OneEV == R(1000)

\* the potential file as psi_at_inf sees it at one donor position: the top
\* of the barrier at its second point (edge), and the residual below it, which
\* falls through zero at an energy that is lowest at the Bohr radius "best"
\* and lies "depth" below zero there.  The last well has a zero of the
\* residual at the very energy the scan starts from
Wells ==
    {[edge |-> e, best |-> b, slopes |-> sl, depth |-> 1] :
        e \in {Rat(-1, 2), R(4)}, b \in {1, 2}, sl \in {<<1, 1>>, <<1, 2>>}}
    \cup {[edge |-> R(4), best |-> 1, slopes |-> <<1, 1>>, depth |-> 4]}

\* the energy at which the residual of well w is zero for lambda
Root(w, lambda) == RSub(RSqr(RSub(lambda, R(w.best))), R(w.depth))

\* psi_at_inf: NaN from sqrt(Vp->b-E) when E is above the barrier, and when E
\* is not finite; below the barrier the residual of the well
psi_at_inf(E, lambda, w) ==
    IF ~Finite(E) \/ RLt(w.edge, E) THEN NaN
    ELSE IF RLe(E, Root(w, lambda))
    THEN RMul(R(w.slopes[1]), DSub[Root(w, lambda), E])
    ELSE RMul(R(w.slopes[2]), DSub[Root(w, lambda), E])

\* V_min(Vstart,n)-gsl_pow_2(e)/(4*pi*epsilon*lambda)
StartEnergy(lambda) == RSub(R(0), RDiv(R(4), lambda))

\* argv: the value of -d and of -u, <<>> when the option is not given
DArgs == {<<>>, <<R(0)>>, <<Rat(1, 2)>>, <<R(2)>>}

UArgs == {<<>>, <<R(0)>>, <<R(4)>>}

DonorFiles == UNION {[1..n -> Wells] : n \in 1..MaxDonors}

\* the locals of main before main runs
NoLocals ==
    [delta_E |-> Uninit, d_E |-> Uninit, lambda_start |-> Uninit,
     lambda_step |-> Uninit, lambda_stop |-> Uninit,
     lambda |-> Uninit, lambda_0 |-> Uninit, x |-> Uninit, x_min |-> Uninit,
     y |-> Uninit, y1 |-> Uninit, y2 |-> Uninit, dy |-> Uninit, E |-> Uninit,
     i_d |-> 0, repeat_flag_lambda |-> FALSE]

NoOutput == [printed |-> <<>>, e_r |-> <<>>, l_r |-> <<>>]

InitD02D ==
    /\ MathsIdle /\ SubbandIdle /\ sb = NoSubband /\ ReadIdle /\ EfsqwOff
    /\ ProgramsOff
    /\ dpc = "main"
    /\ din = <<>>
    /\ dloc = NoLocals
    /\ dout = NoOutput

\* main is entered with its arguments and files; the defaults are set, d_E
\* is computed, then the options are read
ParseOptions ==
    /\ dpc = "main"
    /\ din' \in [d : DArgs, u : UArgs, r_d : DonorFiles]
    /\ dloc' = [dloc EXCEPT
           !.delta_E = IF din'.d = <<>> THEN R(1) ELSE din'.d[1],
           !.d_E = RDiv(R(1), R(DerivativeRatio)),
           !.lambda_start = R(1),
           !.lambda_step = R(1),
           !.lambda_stop = IF din'.u = <<>> THEN R(-1) ELSE din'.u[1]]
    /\ dpc' = "donor"
    /\ UNCHANGED <<dout, besideD02D>>

\* while(fscanf(fr_d,...)!=EOF): the next donor position, if there is one
NextDonor ==
    /\ dpc = "donor"
    /\ IF dloc.i_d < Len(din.r_d)
       THEN /\ dloc' = [dloc EXCEPT !.lambda = dloc.lambda_start, !.x_min = OneEV]
            /\ dpc' = "lambda"
       ELSE /\ dloc' = dloc
            /\ dpc' = "exit"
    /\ UNCHANGED <<din, dout, besideD02D>>

\* the well of the donor position in hand
well == din.r_d[dloc.i_d + 1]

\* the first estimate of the energy and its residual
StartScan ==
    /\ dpc = "lambda"
    /\ \E x \in {StartEnergy(dloc.lambda)} :
       \E y2 \in {psi_at_inf(x, dloc.lambda, well)} :
          dloc' = [dloc EXCEPT !.x = x, !.y2 = y2]
    /\ dpc' = "scan"
    /\ UNCHANGED <<din, dout, besideD02D>>

\* do { y1=y2; x+=delta_E; y2=psi_at_inf(x) } while(y1*y2>0)
ScanStep ==
    /\ dpc = "scan"
    /\ \E x \in {DAdd[dloc.x, dloc.delta_E]} :
       \E y2 \in {psi_at_inf(x, dloc.lambda, well)} :
       \E y1y2 \in {DMul[dloc.y2, y2]} :
          /\ dloc' = [dloc EXCEPT !.y1 = dloc.y2, !.x = x, !.y2 = y2]
          /\ dpc' = IF DGt[y1y2, R(0)] THEN "scan" ELSE "midpoint"
    /\ UNCHANGED <<din, dout, besideD02D>>

\* x-=fabs(y2)/(fabs(y1)+fabs(y2))*delta_E
Midpoint ==
    /\ dpc = "midpoint"
    /\ \E sum \in {DAdd[DAbs[dloc.y1], DAbs[dloc.y2]]} :
       \E part \in {DDiv[DAbs[dloc.y2], sum]} :
       \E back \in {DMul[part, dloc.delta_E]} :
          dloc' = [dloc EXCEPT !.x = DSub[dloc.x, back]]
    /\ dpc' = "newton"
    /\ UNCHANGED <<din, dout, besideD02D>>

\* do { y=...; dy=...; x-=y/dy } while(fabs(y/dy)>1e-9*e)
NewtonStep ==
    /\ dpc = "newton"
    /\ \E y \in {psi_at_inf(dloc.x, dloc.lambda, well)} :
       \E above \in {DAdd[dloc.x, dloc.d_E]}, below \in {DSub[dloc.x, dloc.d_E]} :
       \E y_above \in {psi_at_inf(above, dloc.lambda, well)},
          y_below \in {psi_at_inf(below, dloc.lambda, well)} :
       \E rise \in {DSub[y_above, y_below]}, run \in {DMul[R(2), dloc.d_E]} :
       \E dy \in {DDiv[rise, run]} :
       \E corr \in {DDiv[y, dy]} :
          /\ dloc' = [dloc EXCEPT !.y = y, !.dy = dy, !.x = DSub[dloc.x, corr]]
          /\ dpc' = IF DGt[DAbs[corr], NewtonTol] THEN "newton" ELSE "converged"
    /\ UNCHANGED <<din, dout, besideD02D>>

\* the loop over lambda whose test leaves out lambda_stop<0
RepeatLambda_FlagAlways ==
    /\ dpc = "converged"
    /\ LET flag   == DGt[dloc.x_min, dloc.x]
           lambda == DAdd[dloc.lambda, dloc.lambda_step]
       IN  /\ dloc' = [dloc EXCEPT
                  !.x_min = IF flag THEN dloc.x ELSE dloc.x_min,
                  !.lambda_0 = IF flag THEN dloc.lambda ELSE dloc.lambda_0,
                  !.repeat_flag_lambda = flag,
                  !.lambda = lambda]
           /\ dpc' = IF flag \/ DGt[dloc.lambda_stop, lambda]
                     THEN "lambda" ELSE "output"
    /\ dout' = [dout EXCEPT !.printed =
                     Append(dout.printed, [r_d |-> dloc.i_d, lambda |-> dloc.lambda,
                                           energy |-> dloc.x])]
    /\ UNCHANGED <<din, besideD02D>>

\* printf, repeat_lambda, lambda+=lambda_step and the test of the do-while;
\* the donor position printed is the place of the donor in r_d.r
RepeatLambda ==
    /\ dpc = "converged"
    /\ LET flag   == DGt[dloc.x_min, dloc.x]
           lambda == DAdd[dloc.lambda, dloc.lambda_step]
       IN  /\ dloc' = [dloc EXCEPT
                  !.x_min = IF flag THEN dloc.x ELSE dloc.x_min,
                  !.lambda_0 = IF flag THEN dloc.lambda ELSE dloc.lambda_0,
                  !.repeat_flag_lambda = flag,
                  !.lambda = lambda]
           /\ dpc' = IF \/ flag /\ DGt[R(0), dloc.lambda_stop]
                        \/ DGt[dloc.lambda_stop, lambda]
                     THEN "lambda" ELSE "output"
    /\ dout' = [dout EXCEPT !.printed =
                     Append(dout.printed, [r_d |-> dloc.i_d, lambda |-> dloc.lambda,
                                           energy |-> dloc.x])]
    /\ UNCHANGED <<din, besideD02D>>

\* E=x_min; the lines of e.r and l.r; wavefunctions(); i_d++.  A lambda_0
\* that was never assigned is whatever its memory holds
WriteDonor ==
    /\ dpc = "output"
    /\ \E l0 \in IF dloc.lambda_0 = Uninit THEN Garbage ELSE {dloc.lambda_0} :
          dout' = [dout EXCEPT !.e_r = Append(dout.e_r, dloc.x_min),
                               !.l_r = Append(dout.l_r, l0)]
    /\ dloc' = [dloc EXCEPT !.E = dloc.x_min, !.i_d = dloc.i_d + 1]
    /\ dpc' = "donor"
    /\ UNCHANGED <<din, besideD02D>>

\* return EXIT_SUCCESS
ExitMain ==
    /\ dpc = "exit"
    /\ dpc' = "done"
    /\ UNCHANGED <<din, dloc, dout, besideD02D>>

NextD02D ==
    \/ ParseOptions
    \/ NextDonor
    \/ StartScan
    \/ ScanStep
    \/ Midpoint
    \/ NewtonStep
    \/ RepeatLambda
    \/ WriteDonor
    \/ ExitMain

SpecD02D == InitD02D /\ [][NextD02D]_vars

\* a process that can take a step takes one
SpecD02DFair == SpecD02D /\ WF_vars(NextD02D)

(***************************************************************************)
(* efsqw --output-equations: the left-hand side of the matching equation   *)
(* goes to lhs.r, and each branch of the right-hand side to a file of its  *)
(* own.  v is in units of pi/2.                                            *)
(***************************************************************************)
\* most bound states of the well
MaxBound == 2

\* const size_t nv_branch = 1000
nv_branch == 1000

\* pi/2.0
HalfPi == R(1)

\* the spacing of a branch reaching the whole way to the asymptote
dv_branch_UpToAsymptote == RDiv(HalfPi, R(nv_branch - 1))

\* const double dv_branch = (pi/2.0*0.999999)/(nv_branch-1)
dv_branch == RDiv(RMul(HalfPi, Rat(999999, 1000000)), R(nv_branch - 1))

InitEfsqw ==
    /\ MathsIdle /\ SubbandIdle /\ sb = NoSubband /\ ReadIdle /\ D02DOff
    /\ ProgramsOff
    /\ epc = "main"
    /\ ein = <<>>
    /\ ibranch = 0
    /\ iv_branch = 0
    /\ v_branch = <<>>
    /\ efiles = <<>>

\* the options are read and the well is solved: nst = se.get_n_bound()
EfsqwMain ==
    /\ epc = "main"
    /\ ein' \in [output_equations : BOOLEAN, nst : 0..MaxBound]
    /\ epc' = IF ein'.output_equations THEN "lhs" ELSE "dump"
    /\ UNCHANGED <<ibranch, iv_branch, v_branch, efiles, besideEfsqw>>

\* the left-hand side, in one file
WriteLhs ==
    /\ epc = "lhs"
    /\ efiles' = Append(efiles, [name |-> <<"lhs">>, lines |-> (ein.nst + 1) * 1000])
    /\ ibranch' = 0
    /\ epc' = "branch"
    /\ UNCHANGED <<ein, iv_branch, v_branch, besideEfsqw>>

\* for (ibranch = 0; ibranch < nst+1; ...): the tables of a branch are made
NextBranch ==
    /\ epc = "branch"
    /\ IF ibranch < ein.nst + 1
       THEN /\ v_branch' = [i \in 1..nv_branch |-> R(0)]
            /\ iv_branch' = 0
            /\ epc' = "sample"
       ELSE /\ epc' = "dump"
            /\ UNCHANGED <<v_branch, iv_branch>>
    /\ UNCHANGED <<ein, ibranch, efiles, besideEfsqw>>

\* v_branch[iv_branch] = pi/2.0 * ibranch + iv_branch*dv_branch
Sample ==
    /\ epc = "sample"
    /\ iv_branch < nv_branch
    /\ v_branch' = [v_branch EXCEPT ![iv_branch + 1] =
                       RAdd(RMul(HalfPi, R(ibranch)), RMul(R(iv_branch), dv_branch))]
    /\ iv_branch' = iv_branch + 1
    /\ UNCHANGED <<epc, ein, ibranch, efiles, besideEfsqw>>

\* the branch is written to rhs_<ibranch+1>.r
WriteBranch ==
    /\ epc = "sample"
    /\ iv_branch = nv_branch
    /\ efiles' = Append(efiles, [name |-> <<"rhs", ibranch + 1>>, lines |-> Len(v_branch)])
    /\ ibranch' = ibranch + 1
    /\ epc' = "branch"
    /\ UNCHANGED <<ein, iv_branch, v_branch, besideEfsqw>>

\* the energies and wavefunctions are written, and main returns
Dump ==
    /\ epc = "dump"
    /\ efiles' = Append(efiles, [name |-> <<"E">>, lines |-> ein.nst])
    /\ epc' = "done"
    /\ UNCHANGED <<ein, ibranch, iv_branch, v_branch, besideEfsqw>>

NextEfsqw ==
    \/ EfsqwMain
    \/ WriteLhs
    \/ NextBranch
    \/ Sample
    \/ WriteBranch
    \/ Dump

SpecEfsqw == InitEfsqw /\ [][NextEfsqw]_vars

(***************************************************************************)
(* wavefunctions() of d02D: the shooting recurrence of psi_at_inf is run   *)
(* once more and its values are stored with the positions of the potential *)
(* file, normalised and written to wf(i_d).r.  Positions are in units of   *)
(* delta_z, amplitudes in units of delta_psi.                              *)
(***************************************************************************)
\* most lines of the potential file
MaxGrid == 4

\* exp(kappa*delta_z)
Growths == {R(2), R(3)}

\* 2-gsl_pow_2(delta_z)*gamma/alpha at a point of the potential file
Coefficients == {R(1), R(2), Rat(5, 2)}

\* the potential file: its positions Vp->a are 0, 1, ..., n-1, and its
\* potentials Vp->b are seen through the coefficient of the recurrence
PotentialFiles == UNION {[1..n -> Coefficients] : n \in 2..MaxGrid}

\* psi[2] of the recurrence (beta is 0 since I_2 is 0)
psi_next(psi, c) == RAdd(RNeg(psi[1]), RMul(c, psi[2]))

\* the recurrence of psi_at_inf: the value at the point k of the grid, where
\* the loop turn i takes the potential at point i and gives the value at i+1
RECURSIVE shooting(_, _, _)
shooting(growth, V, k) ==
    IF k = 0 THEN R(1)
    ELSE IF k = 1 THEN growth
    ELSE psi_next(<<shooting(growth, V, k - 2), shooting(growth, V, k - 1)>>,
                  At(V, k - 1))

\* calloc(n,sizeof(data12))
calloc(n) == [i \in 1..n |-> [a |-> R(0), b |-> <<R(0), R(0)>>]]

InitWavefunctions ==
    /\ MathsIdle /\ SubbandIdle /\ sb = NoSubband /\ ReadIdle /\ D02DOff /\ EfsqwOff
    /\ AdoOff /\ EfiwireOff
    /\ wpc = "called"
    /\ win = <<>>
    /\ wloc = <<>>
    /\ wout = <<>>

\* the call: the array is allocated, psi[0] and psi[1] are set and stored
Boundary ==
    /\ wpc = "called"
    /\ \E g \in Growths, V \in PotentialFiles :
          /\ win' = [growth |-> g, V |-> V, n |-> Len(V)]
          /\ wloc' = [psi |-> <<R(1), g, Uninit>>, i |-> 2, Vp |-> 1, wf |-> 1,
                      Npsi |-> R(0), Nchi |-> R(0)]
          /\ wout' = [wf_start |->
                         [calloc(Len(V)) EXCEPT
                            ![1] = [a |-> R(0), b |-> <<R(1), R(1)>>],
                            ![2] = [a |-> R(1), b |-> <<g, g>>]],
                      file |-> <<>>]
    /\ wpc' = "loop"
    /\ UNCHANGED besideWavefunctions

\* one turn of for(i=2;i<n;i++): psi[2] is computed, wf and Vp are moved on,
\* the position and psi[1] are stored, and psi is shifted
Recur ==
    /\ wpc = "loop"
    /\ wloc.i < win.n
    /\ LET psi2 == psi_next(wloc.psi, At(win.V, wloc.Vp))
           wf   == wloc.wf + 1
           Vp   == wloc.Vp + 1
       IN  /\ wout' = [wout EXCEPT !.wf_start[wf + 1] =
                          [a |-> R(Vp), b |-> <<wloc.psi[2], wloc.psi[2]>>]]
           /\ wloc' = [wloc EXCEPT !.psi = <<wloc.psi[2], psi2, psi2>>,
                                   !.i = wloc.i + 1, !.wf = wf, !.Vp = Vp]
    /\ UNCHANGED <<wpc, win, besideWavefunctions>>

\* the sum of b[c]^2*delta_z over the array
RECURSIVE norm_loop(_, _, _, _)
norm_loop(wf, c, i, N) ==
    IF i < Len(wf) THEN norm_loop(wf, c, i + 1, RAdd(N, RSqr(At(wf, i).b[c])))
    ELSE N

\* the loop is left; the two normalisation integrals
Integrals ==
    /\ wpc = "loop"
    /\ wloc.i >= win.n
    /\ wloc' = [wloc EXCEPT !.Npsi = norm_loop(wout.wf_start, 1, 0, R(0)),
                            !.Nchi = norm_loop(wout.wf_start, 2, 0, R(0))]
    /\ wpc' = "filled"
    /\ UNCHANGED <<win, wout, besideWavefunctions>>

\* every sample is divided by the square root of its integral
Normalise ==
    /\ wpc = "filled"
    /\ wout' = [wout EXCEPT !.wf_start =
                   [i \in 1..win.n |->
                       [a |-> wout.wf_start[i].a,
                        b |-> <<RDiv(wout.wf_start[i].b[1], RSqrt(wloc.Npsi)),
                                RDiv(wout.wf_start[i].b[2], RSqrt(wloc.Nchi))>>]]]
    /\ wpc' = "normalised"
    /\ UNCHANGED <<win, wloc, besideWavefunctions>>

\* the lines of wf(i_d).r
WriteWavefunction ==
    /\ wpc = "normalised"
    /\ wout' = [wout EXCEPT !.file =
                   [i \in 1..win.n |->
                       <<wout.wf_start[i].a, wout.wf_start[i].b[1],
                         wout.wf_start[i].b[2]>>]]
    /\ wpc' = "done"
    /\ UNCHANGED <<win, wloc, besideWavefunctions>>

NextWavefunctions ==
    \/ Boundary
    \/ Recur
    \/ Integrals
    \/ Normalise
    \/ WriteWavefunction

SpecWavefunctions == InitWavefunctions /\ [][NextWavefunctions]_vars

(***************************************************************************)
(* ado: for every wanted transition i->f the range of initial wave-vectors *)
(* is found and sampled nki times; at each sample the final wave-vector    *)
(* that conserves energy is found and asserted to be real.  Units as for   *)
(* the Subband, with a mass m of 1/2 so that 2*m/hBar^2 is 1.              *)
(***************************************************************************)
\* most samples of the initial wave-vector (--nki)
MaxSamples == 3

\* most transitions wanted in rrp.r
MaxTransitions == 2

\* --mass
ado_m == Rat(1, 2)

\* the subband minima read from the energy file
SubbandEnergies == {R(-4), R(-2), R(0), R(2), R(4)}

\* the two subbands that Subband::read_from_file gives for them
TwoSubbands ==
    {[i \in 1..2 |-> Subband(E[i], R(0), R(1), ado_m, R(0), R(0))] :
        E \in [1..2 -> SubbandEnergies]}

\* rrp.r: pairs of state indices, counted from 1
TransitionTables ==
    UNION {[1..n -> {<<1, 2>>, <<2, 1>>}] : n \in 1..MaxTransitions}

\* --Ecutoff, <<>> when it is not given
EcutoffArgs == {<<>>, <<R(1)>>, <<R(16)>>}

\* what isb.get_k_max(T) returns: a wave-vector
KMaxValues == {R(0), R(3)}

NoAdoLocals ==
    [itx |-> 0, i |-> 0, f |-> 0, Ei |-> Uninit, Ef |-> Uninit,
     kimin |-> Uninit, kimax |-> Uninit, Ecutoff |-> Uninit, dki |-> Uninit,
     iki |-> 0, ki |-> Uninit, kf_sqr |-> Uninit, rows |-> <<>>]

NoAdoOutput == [files |-> <<>>, Favg |-> <<>>, cerr |-> <<>>]

InitAdo ==
    /\ MathsIdle /\ SubbandIdle /\ sb = NoSubband /\ ReadIdle /\ D02DOff /\ EfsqwOff
    /\ WavefunctionsOff /\ EfiwireOff
    /\ apc = "main"
    /\ ain = <<>>
    /\ aloc = NoAdoLocals
    /\ aout = NoAdoOutput

\* main up to the loop over the transitions: the options and the files
AdoMain ==
    /\ apc = "main"
    /\ ain' \in [subbands : TwoSubbands, rrp : TransitionTables,
                  Ecutoff : EcutoffArgs, nki : 1..MaxSamples, k_max : KMaxValues]
    /\ apc' = "transition"
    /\ UNCHANGED <<aloc, aout, besideAdo>>

\* kimin: sqrt(2*m*Efi)/hBar when Efi > 0
kimin_of(Efi) ==
    IF DGt[Efi, R(0)] THEN RootOverHBar(RMul(RMul(R(2), ado_m), Efi)) ELSE R(0)

\* the cut-off: the one given or the one of get_k_max, extended by Ef when
\* it does not reach the final subband
Ecutoff_of(Ei, Ef) ==
    LET given == IF ain.Ecutoff # <<>> THEN ain.Ecutoff[1]
                 ELSE RDiv(RMul(RMul(hBar, hBar), RSqr(ain.k_max)),
                           RMul(R(2), ado_m))
    IN  IF DGt[Ef, DAdd[given, Ei]] THEN DAdd[given, Ef] ELSE given

\* the head of the loop over the transitions, down to dki; an exception of
\* isb.k is caught nowhere
NextTransition ==
    /\ apc = "transition"
    /\ aloc.itx < Len(ain.rrp)
    /\ LET i       == ain.rrp[aloc.itx + 1][1]
           f       == ain.rrp[aloc.itx + 1][2]
           isb     == At(ain.subbands, i - 1)
           fsb     == At(ain.subbands, f - 1)
           Ei      == isb.E
           Ef      == fsb.E
           kimin   == kimin_of(DSub[Ef, Ei])
           Ecutoff == Ecutoff_of(Ei, Ef)
           kimax   == Subband_k(isb, Ecutoff)
           cerr    == IF ain.Ecutoff # <<>> /\ DGt[Ef, DAdd[ain.Ecutoff[1], Ei]]
                      THEN Append(aout.cerr, <<"Extending range automatically", i, f>>)
                      ELSE aout.cerr
       IN  IF kimax.kind # "value"
           THEN /\ apc' = "terminated"
                /\ aloc' = [aloc EXCEPT !.i = i, !.f = f, !.Ei = Ei, !.Ef = Ef,
                                        !.kimin = kimin, !.Ecutoff = Ecutoff]
                /\ aout' = [aout EXCEPT !.cerr = Append(cerr, <<kimax.kind>>)]
           ELSE /\ apc' = "ki"
                /\ aloc' = [aloc EXCEPT !.i = i, !.f = f, !.Ei = Ei, !.Ef = Ef,
                                        !.kimin = kimin, !.Ecutoff = Ecutoff,
                                        !.kimax = kimax.val[1],
                                        !.dki = DDiv[DSub[kimax.val[1], kimin],
                                                     R(ain.nki - 1)],
                                        !.iki = 0, !.rows = <<>>]
                /\ aout' = [aout EXCEPT !.cerr = cerr]
    /\ UNCHANGED <<ain, besideAdo>>

\* one turn of the loop over ki: the process is aborted when the assertion
\* on kf_sqr fails; otherwise the rate of this ki is kept, here as ki and
\* kf_sqr, from which it is computed
KiSample ==
    /\ apc = "ki"
    /\ aloc.iki < ain.nki
    /\ \E ki \in {DAdd[aloc.kimin, DMul[aloc.dki, R(aloc.iki)]]} :
       \E kf_sqr \in {DAdd[DMul[ki, ki],
                            DDiv[DMul[RMul(R(2), ado_m), DSub[aloc.Ei, aloc.Ef]],
                                 RMul(hBar, hBar)]]} :
          IF kf_sqr # NaN /\ ~DGt[R(0), kf_sqr]
          THEN /\ aloc' = [aloc EXCEPT !.ki = ki, !.kf_sqr = kf_sqr,
                                       !.rows = Append(aloc.rows, <<ki, kf_sqr>>),
                                       !.iki = aloc.iki + 1]
               /\ apc' = "ki"
               /\ aout' = aout
          ELSE /\ aloc' = [aloc EXCEPT !.ki = ki, !.kf_sqr = kf_sqr]
               /\ apc' = "aborted"
               /\ aout' = [aout EXCEPT !.cerr =
                               Append(aout.cerr, <<"Assertion `kf_sqr >= 0.0' failed">>)]
    /\ UNCHANGED <<ain, besideAdo>>

\* the loop over ki is left: the table of the transition and its line in
\* ado-avg.dat are written
WriteTransition ==
    /\ apc = "ki"
    /\ aloc.iki >= ain.nki
    /\ aout' = [aout EXCEPT
           !.files = Append(aout.files, [i |-> aloc.i, f |-> aloc.f, rows |-> aloc.rows]),
           !.Favg = Append(aout.Favg, <<aloc.i, aloc.f>>)]
    /\ aloc' = [aloc EXCEPT !.itx = aloc.itx + 1]
    /\ apc' = "transition"
    /\ UNCHANGED <<ain, besideAdo>>

\* fclose(Favg); return EXIT_SUCCESS
AdoExit ==
    /\ apc = "transition"
    /\ aloc.itx >= Len(ain.rrp)
    /\ apc' = "done"
    /\ UNCHANGED <<ain, aloc, aout, besideAdo>>

NextAdo ==
    \/ AdoMain
    \/ NextTransition
    \/ KiSample
    \/ WriteTransition
    \/ AdoExit

SpecAdo == InitAdo /\ [][NextAdo]_vars

(***************************************************************************)
(* efiwire: for every state (in_y, in_z) of the wire the wavefunction is   *)
(* sampled on an N by N grid and written with the coordinates of each      *)
(* point.  Lengths are in units of 100 angstrom, energies in units of      *)
(* (pi*hBar)^2/(2*m), and the two sines of a sample are kept as their      *)
(* arguments in units of pi.                                               *)
(***************************************************************************)
\* most points of the grid in each direction (--nz)
MaxPoints == 3

\* most states in each direction (--nst)
MaxWireStates == 2

\* --ywidth and --zwidth
WireWidths == {R(1), R(2)}

\* std::valarray<double>(n): n zeros
zeros(n) == [i \in 1..n |-> R(0)]

NoWireLocals ==
    [ist |-> 0, in_y |-> 0, in_z |-> 0, y_index |-> <<>>, z_index |-> <<>>,
     E |-> <<>>, y |-> <<>>, z |-> <<>>, psi |-> <<>>, dy |-> Uninit,
     dz |-> Uninit, izy |-> 0, iy |-> 0, iz |-> 0, psi_y |-> Uninit]

InitEfiwire ==
    /\ MathsIdle /\ SubbandIdle /\ sb = NoSubband /\ ReadIdle /\ D02DOff /\ EfsqwOff
    /\ WavefunctionsOff /\ AdoOff
    /\ fpc = "main"
    /\ fin = <<>>
    /\ floc = NoWireLocals
    /\ fout = <<>>

\* main up to the loops: the options and the tables of the states
EfiwireMain ==
    /\ fpc = "main"
    /\ fin' \in [Ly : WireWidths, Lz : WireWidths, N : 2..MaxPoints,
                  s : 1..MaxWireStates]
    /\ floc' = [floc EXCEPT !.y_index = [i \in 1..(fin'.s * fin'.s) |-> 0],
                            !.z_index = [i \in 1..(fin'.s * fin'.s) |-> 0],
                            !.E = zeros(fin'.s * fin'.s),
                            !.in_y = 1, !.in_z = 1]
    /\ fpc' = "state"
    /\ UNCHANGED <<fout, besideEfiwire>>

\* the head of the body of the loops over in_y and in_z
WireState ==
    /\ fpc = "state"
    /\ floc.in_y <= fin.s
    /\ floc' = [floc EXCEPT
           !.y_index[floc.ist + 1] = floc.in_y,
           !.z_index[floc.ist + 1] = floc.in_z,
           !.E[floc.ist + 1] = RAdd(RSqr(RDiv(R(floc.in_y), fin.Ly)),
                                    RSqr(RDiv(R(floc.in_z), fin.Lz))),
           !.y = zeros(fin.N * fin.N),
           !.z = zeros(fin.N * fin.N),
           !.psi = [i \in 1..(fin.N * fin.N) |-> <<R(0), R(0)>>],
           !.dy = RDiv(fin.Ly, R(fin.N - 1)),
           !.dz = RDiv(fin.Ly, R(fin.N - 1)),
           !.izy = 0, !.iy = 0]
    /\ fpc' = "row"
    /\ UNCHANGED <<fin, fout, besideEfiwire>>

\* the head of a turn of the loop over iy: y[izy] and psi_y
GridRow ==
    /\ fpc = "row"
    /\ floc.iy < fin.N
    /\ LET y == RMul(R(floc.iy), floc.dy) IN
       floc' = [floc EXCEPT
           !.y[floc.izy + 1] = y,
           !.psi_y = RDiv(RMul(R(floc.in_y), y), fin.Ly),
           !.iz = 0]
    /\ fpc' = "point"
    /\ UNCHANGED <<fin, fout, besideEfiwire>>

\* a turn of the loop over iz: z[izy], psi[izy] and ++izy
GridPoint ==
    /\ fpc = "point"
    /\ floc.iz < fin.N
    /\ LET z == RMul(R(floc.iz), floc.dz) IN
       floc' = [floc EXCEPT
           !.z[floc.izy + 1] = z,
           !.psi[floc.izy + 1] = <<floc.psi_y, RDiv(RMul(R(floc.in_z), z), fin.Lz)>>,
           !.izy = floc.izy + 1,
           !.iz = floc.iz + 1]
    /\ UNCHANGED <<fpc, fin, fout, besideEfiwire>>

\* the loop over iz is left
EndRow ==
    /\ fpc = "point"
    /\ floc.iz >= fin.N
    /\ floc' = [floc EXCEPT !.iy = floc.iy + 1]
    /\ fpc' = "row"
    /\ UNCHANGED <<fin, fout, besideEfiwire>>

\* the loop over iy is left: cd(in_y)(in_z).r is written and the loops over
\* the states go on
WriteWireState ==
    /\ fpc = "row"
    /\ floc.iy >= fin.N
    /\ fout' = Append(fout,
           [in_y |-> floc.in_y, in_z |-> floc.in_z,
            rows |-> [i \in 1..(fin.N * fin.N) |->
                         <<floc.y[i], floc.z[i], floc.psi[i]>>]])
    /\ floc' = [floc EXCEPT
           !.ist = floc.ist + 1,
           !.in_z = IF floc.in_z < fin.s THEN floc.in_z + 1 ELSE 1,
           !.in_y = IF floc.in_z < fin.s THEN floc.in_y ELSE floc.in_y + 1]
    /\ fpc' = "state"
    /\ UNCHANGED <<fin, besideEfiwire>>

\* the loops over the states are left: the table of energies is written
WriteWireEnergies ==
    /\ fpc = "state"
    /\ floc.in_y > fin.s
    /\ fout' = Append(fout,
           [in_y |-> 0, in_z |-> 0,
            rows |-> [i \in 1..(fin.s * fin.s) |->
                         <<floc.y_index[i], floc.z_index[i], floc.E[i]>>]])
    /\ fpc' = "done"
    /\ UNCHANGED <<fin, floc, besideEfiwire>>

NextEfiwire ==
    \/ EfiwireMain
    \/ WireState
    \/ GridRow
    \/ GridPoint
    \/ EndRow
    \/ WriteWireState
    \/ WriteWireEnergies

SpecEfiwire == InitEfiwire /\ [][NextEfiwire]_vars

(***************************************************************************)
(* Claims about the numerical kernel (checked under SpecMaths)             *)
(***************************************************************************)
Integrating(fn) == mpc = "done" /\ mcall.fn = fn

\* the errors of the C++ standard library that the kernel throws
ErrorClasses == {"runtime_error", "length_error", "domain_error"}

\* C1: on n >= 2 samples integral returns what simps returns when n is odd and
\* n >= 3, and what trapz returns when n is even (n = 2 included); it never hands
\* an even number of samples to simps.
C1_IntegralDispatch ==
    (Integrating("integral") /\ Len(mcall.y) >= 2) =>
        LET n == Len(mcall.y) IN
        /\ (n % 2 = 1 /\ n >= 3) =>
               /\ Seen(mout) = Apply(mcall.ns, "simps", mcall.y, mcall.dx)
               /\ mout.via = "simps"
        /\ (n % 2 = 0) =>
               /\ Seen(mout) = Apply(mcall.ns, "trapz", mcall.y, mcall.dx)
               /\ mout.via = "trapz"
               /\ mout.kind = "value"
        /\ (mout.via = "simps" => n % 2 = 1)

C1_Witness ==
    /\ Integrating("integral")
    /\ Len(mcall.y) = 4
    /\ mout.via = "trapz"
    /\ mout.kind = "value"
    /\ mout.val # <<R(0)>>

\* C2: integral, simps and trapz each fail with an error about the number of
\* samples, and return no value, when given 0 or 1 samples.
C2_TooFewSamples ==
    \A fn \in {"integral", "simps", "trapz"} :
        (Integrating(fn) /\ Len(mcall.y) < 2) =>
            /\ mout.kind \in ErrorClasses
            /\ mout.val = <<>>
            /\ mout.what \in {"Not enough points for Simpson's rule",
                              "Need at least two points for trapezium rule",
                              "Need at least two points for numerical integration."}

C2_Witness ==
    /\ Integrating("trapz")
    /\ Len(mcall.y) = 1
    /\ mout.kind = "runtime_error"

\* C3 as claimed: for every even number of samples, whatever it is, simps fails
\* with std::length_error and returns no value.
C3_EvenIsLengthError ==
    (Integrating("simps") /\ Len(mcall.y) % 2 = 0) =>
        (mout.kind = "length_error" /\ mout.val = <<>>)

\* C3 as amended: for every even number of samples simps fails and returns no
\* value; the error is std::length_error when there are 4 or more samples and
\* std::runtime_error (too few points) when there are 0 or 2.
C3_EvenFails ==
    (Integrating("simps") /\ Len(mcall.y) % 2 = 0) =>
        /\ mout.val = <<>>
        /\ mout.kind = (IF Len(mcall.y) >= 4 THEN "length_error" ELSE "runtime_error")

C3_Witness ==
    /\ Integrating("simps")
    /\ Len(mcall.y) = 4
    /\ mout.kind = "length_error"

\* C4: on an odd number n >= 3 of evenly spaced exact samples of a polynomial of
\* degree <= 3, integral returns the analytic integral of the polynomial over
\* the sampled interval.
C4_CubicExact ==
    (Integrating("integral") /\ Len(mcall.y) >= 3 /\ Len(mcall.y) % 2 = 1) =>
        \A a \in Polys, x0 \in PolyStarts :
            (\A j \in 1..Len(mcall.y) :
                 mcall.y[j] = PolyEval(a, RAdd(x0, RMul(R(j - 1), mcall.dx)))) =>
                (mout.kind = "value" /\
                 mout.val = <<PolyIntegral(a, x0, mcall.dx, Len(mcall.y))>>)

C4_Witness ==
    /\ Integrating("integral")
    /\ Len(mcall.y) = 5
    /\ mcall.dx = Rat(1, 2)
    /\ \E a \in Polys :
           /\ a[3] # 0 /\ a[2] # 0
           /\ mcall.y = PolySample(a, R(-1), mcall.dx, 5)
           /\ mout.val = <<PolyIntegral(a, R(-1), mcall.dx, 5)>>
           /\ mout.val # <<R(0)>>

\* x0 lies in [min(x_values), max(x_values)]
InTable(xs, x0) == RLe(SeqMin(xs), x0) /\ RLe(x0, SeqMax(xs))

\* C5: with x0 equal to the smallest table x, lookup_y_from_x returns the y
\* paired with that x; with x0 below the smallest or above the largest table x
\* it fails with a domain error before any table entry is used to interpolate.
C5_LookupAtMin ==
    Integrating("lookup_y_from_x") =>
        LET xs == mcall.x_values
            ys == mcall.y_values
        IN  /\ (mcall.x0 = SeqMin(xs)) =>
                   /\ mout.kind = "value"
                   /\ \E i \in 1..Len(xs) : xs[i] = mcall.x0 /\ mout.val = <<ys[i]>>
            /\ (~InTable(xs, mcall.x0)) =>
                   /\ mout.kind = "domain_error"
                   /\ mout.val = <<>>
                   /\ mout.last = -1

\* the part of C5 that the code keeps: the claim holds of every table whose
\* smallest and largest x differ
C5_HoldsWhenMinBelowMax ==
    (Integrating("lookup_y_from_x") /\ SeqMin(mcall.x_values) # SeqMax(mcall.x_values))
        => C5_LookupAtMin

\* the linear interpolation at x0 between entries i and i + 1 of a table
Between(xs, ys, i, x0) ==
    RAdd(ys[i], RDiv(RMul(RSub(ys[i + 1], ys[i]), RSub(x0, xs[i])),
                     RSub(xs[i + 1], xs[i])))

\* C6: for strictly ascending xs and min(xs) <= x0 <= max(xs), x0 = max(xs)
\* included, lookup_y_from_x returns the linear interpolation between the two
\* entries that bracket x0, and its search index never passes the last entry.
C6_LookupInRange ==
    (/\ Integrating("lookup_y_from_x")
     /\ StrictlyAscending(mcall.x_values)
     /\ InTable(mcall.x_values, mcall.x0)) =>
        LET xs == mcall.x_values
            ys == mcall.y_values
        IN  /\ mout.last < Len(xs)
            /\ mout.ix < Len(xs)
            /\ mout.kind = "value"
            /\ \/ Len(xs) = 1 /\ mout.val = <<ys[1]>>
               \/ \E i \in 1..(Len(xs) - 1) :
                      /\ RLe(xs[i], mcall.x0) /\ RLe(mcall.x0, xs[i + 1])
                      /\ mout.val = <<Between(xs, ys, i, mcall.x0)>>

\* what the code keeps of C6: the claim holds whenever x0 is below max(xs)
C6_HoldsBelowMax ==
    (Integrating("lookup_y_from_x") /\ mcall.x0 # SeqMax(mcall.x_values))
        => C6_LookupInRange

Asked(fn) == spc = "done" /\ scall.fn = fn

\* C8: Ek(k) returns exactly 0 whenever |k| < 1e-9, whatever the
\* non-parabolicity; with alphad = 0 it returns hBar^2 k^2 / (2 md_0) for every
\* other k, whatever the subband energy and the band-edge reference.
C8_EkParabolic ==
    Asked("Ek") =>
        LET k == scall.k IN
        /\ RLt(RAbs(k), numerical_error_k) =>
               (sout.kind = "value" /\ sout.val = <<R(0)>>)
        /\ (sb.alphad = R(0) /\ ~RLt(RAbs(k), numerical_error_k)) =>
               /\ sout.kind = "value"
               /\ sout.val = <<RDiv(RMul(RMul(hBar, hBar), RMul(k, k)),
                                    RMul(R(2), sb.md_0))>>

C8_Witness ==
    /\ Asked("Ek")
    /\ sb.alphad = R(0)
    /\ scall.k = R(-2)
    /\ sb.E # R(0)
    /\ sb.condband_edge # R(0)
    /\ sout.val = <<R(4)>>

\* C9: for every subband (any sign of alphad, of the subband energy and of the
\* band-edge reference) and every k, Ek(k) returns a value >= 0 or fails with a
\* domain error; it never returns a negative energy and never takes the square
\* root of a negative discriminant.
C9_EkNeverNegative ==
    Asked("Ek") =>
        /\ \/ sout.kind = "domain_error"
           \/ sout.kind = "value" /\ RLe(R(0), sout.val[1])
        /\ \A i \in 1..Len(sout.sqrt_of) : RLe(R(0), sout.sqrt_of[i])

\* what the code keeps of C9: the claim holds of every subband with alphad >= 0,
\* and no subband takes the square root of a negative discriminant
C9_HoldsForPositiveAlphad ==
    Asked("Ek") =>
        /\ RLe(R(0), sb.alphad) => C9_EkNeverNegative
        /\ \A i \in 1..Len(sout.sqrt_of) : RLe(R(0), sout.sqrt_of[i])

\* C10: k(Ek) fails with a domain error for every Ek < 0, and the failing call
\* leaves the fields of the subband as they were.
C10_NegativeEnergyRejected ==
    [][(spc = "idle" /\ spc' = "done" /\ scall'.fn = "k" /\ RLt(scall'.Ek, R(0))) =>
           (sout'.kind = "domain_error" /\ sout'.val = <<>> /\ sb' = sb)]_vars

C10_Witness ==
    /\ Asked("k")
    /\ scall.Ek = Rat(-1, 2)
    /\ sb.alphad # R(0)
    /\ sout.kind = "domain_error"


(***************************************************************************)
(* C11: for every k >= 0 for which Ek(k) returns an energy Ek > 0,         *)
(* k(Ek(k)) gives back k within the numerical tolerance, whatever alphad   *)
(* is.  As stated it fails: k() returns 0 for every energy below           *)
(* numerical_error_E, so a positive Ek below it does not give k back.      *)
(***************************************************************************)
\* the tolerance of the comparison: ten steps of the square root's resolution
RoundTripTol == Rat(10, SqrtRes)

RoundTrip == Asked("k") /\ "of" \in DOMAIN scall /\ RLe(R(0), scall.of)

GivesBack == /\ sout.kind = "value"
             /\ RLe(RAbs(RSub(sout.val[1], scall.of)), RoundTripTol)

C11_RoundTrip ==
    (RoundTrip /\ RLt(R(0), scall.Ek)) => GivesBack

\* C11, amended: k(Ek(k)) gives k back when Ek(k) is at least
\* numerical_error_E, and is 0 when 0 < Ek(k) < numerical_error_E
C11_RoundTripAboveTolerance ==
    /\ (RoundTrip /\ RLe(numerical_error_E, scall.Ek)) => GivesBack
    /\ (RoundTrip /\ RLt(R(0), scall.Ek) /\ RLt(scall.Ek, numerical_error_E))
          => Seen(sout) = Returns(R(0))

C11_Witness ==
    /\ RoundTrip
    /\ sb.alphad # R(0)
    /\ scall.of = R(2)
    /\ RLe(numerical_error_E, scall.Ek)
    /\ GivesBack

(***************************************************************************)
(* C12: in both overloads of read_from_file, when the population table or  *)
(* the Fermi-energy table does not have one entry per eigenstate, the call *)
(* fails with the error that reports both line counts and the expected     *)
(* count, and returns no subbands                                          *)
(***************************************************************************)
ReadEnded == rpc \in {"done", "failed"}

SizesDiffer == Len(rin.P) # nst \/ Len(rin.Ef) # nst

C12_SizeMismatchReported ==
    (ReadEnded /\ SizesDiffer)
        => rout = Fails("runtime_error", <<"lines", Len(rin.P), Len(rin.Ef), nst>>)

(***************************************************************************)
(* C13: when an entry of the population table is negative, read_from_file  *)
(* fails with a validation error, and no Subband is constructed before it  *)
(* does                                                                    *)
(***************************************************************************)
NegativePopulation ==
    rpc # "idle" /\ \E i \in 1..Len(rin.P) : RLt(rin.P[i], R(0))

C13_NegativePopulationFailsFirst ==
    NegativePopulation =>
        /\ subbands = <<>>
        /\ rpc # "done"
        /\ rpc = "failed" => /\ rout.kind \in {"domain_error", "runtime_error"}
                             /\ rout.subbands = <<>>

C13_Witness ==
    /\ NegativePopulation
    /\ rpc = "failed"
    /\ rin.overload = "nonparabolic"
    /\ rist = 1
    /\ rout = Fails("domain_error", <<"value", R(-1)>>)

(***************************************************************************)
(* C14: every Subband that exists has population >= 0, the population      *)
(* being checked at construction.  The constructors store the population   *)
(* they are given without a test, so a Subband made by them directly can    *)
(* hold a negative one.                                                     *)
(***************************************************************************)
C14_PopulationNeverNegative ==
    /\ RLe(R(0), sb.population)
    /\ \A i \in 1..Len(subbands) : RLe(R(0), subbands[i].population)

(***************************************************************************)
(* C15: the search for a bound-state energy always terminates: a scan      *)
(* that has begun leads to a refined energy, because the scan and the      *)
(* refinement are bounded by a cut-off or an iteration count.  With        *)
(* delta_E = 0 a turn of the scan leaves every variable as it was, so the  *)
(* scan that never ends is the run that stays in that state for ever.      *)
(***************************************************************************)
C15_SearchTerminates == (dpc = "scan") ~> (dpc = "converged")

(***************************************************************************)
(* C16: the step of the centred finite difference used by the refinement   *)
(* is the energy increment in effect divided by 1e6, also when the         *)
(* increment was set with -d                                               *)
(***************************************************************************)
C16_DerivativeStepFollowsIncrement ==
    dpc = "newton" => dloc.d_E = DDiv[dloc.delta_E, R(DerivativeRatio)]

(***************************************************************************)
(* C17: a derivative that is zero or not finite makes the search fail      *)
(* with a domain error: the refinement never hands on an energy computed   *)
(* from such a derivative                                                  *)
(***************************************************************************)
C17_NoEnergyFromSingularDerivative ==
    dpc = "converged" => Finite(dloc.dy) /\ dloc.dy.n # 0

(***************************************************************************)
(* C18: with --output-equations efsqw writes the branch files rhs_1.r to   *)
(* rhs_{nst+1}.r, one for each bound state and one more, and every sample  *)
(* v of branch i lies in [i*pi/2, (i+1)*pi/2): none is on the asymptote    *)
(* at the end of its branch                                                *)
(***************************************************************************)
RhsFiles == SelectSeq(efiles, LAMBDA f : f.name[1] = "rhs")

C18_BranchFilesAndSamples ==
    /\ epc = "sample" =>
          \A j \in 1..iv_branch :
              /\ RLe(RMul(HalfPi, R(ibranch)), v_branch[j])
              /\ RLt(v_branch[j], RMul(HalfPi, R(ibranch + 1)))
    /\ (epc \in {"dump", "done"} /\ ein.output_equations) =>
          RhsFiles = [i \in 1..(ein.nst + 1) |->
                         [name |-> <<"rhs", i>>, lines |-> nv_branch]]
    /\ (epc \in {"dump", "done"} /\ ~ein.output_equations) => RhsFiles = <<>>

C18_Witness ==
    /\ epc = "done"
    /\ ein.output_equations
    /\ ein.nst = 2
    /\ Len(RhsFiles) = 3
    /\ v_branch[nv_branch] = RAdd(R(2), Rat(999999, 1000000))

(***************************************************************************)
(* C19: simps weights the samples 1,4,2,4,...,2,4,1 and scales the sum by  *)
(* dx/3; trapz weights the end samples 1/2 and the others 1 and scales by  *)
(* dx; neither reads an index outside 0..n-1                               *)
(***************************************************************************)
SimpsWeights(n) ==
    [j \in 1..n |-> IF j = 1 \/ j = n THEN R(1)
                    ELSE IF j % 2 = 0 THEN R(4) ELSE R(2)]

TrapzWeights(n) ==
    [j \in 1..n |-> IF j = 1 \/ j = n THEN Rat(1, 2) ELSE R(1)]

\* w[1]*y[1] + ... + w[k]*y[k]
RECURSIVE WeightedSum(_, _, _)
WeightedSum(w, y, k) ==
    IF k = 0 THEN R(0) ELSE RAdd(WeightedSum(w, y, k - 1), RMul(w[k], y[k]))

C19_Weights ==
    LET n == Len(mcall.y) IN
    /\ (Integrating("simps") /\ mout.kind = "value") =>
          /\ mout.val = <<RMul(WeightedSum(SimpsWeights(n), mcall.y, n),
                               RDiv(mcall.dx, R(3)))>>
          /\ Reads(mcall.ns, "simps", mcall.y) \subseteq 0..(n - 1)
    /\ (Integrating("trapz") /\ mout.kind = "value") =>
          /\ mout.val = <<RMul(WeightedSum(TrapzWeights(n), mcall.y, n), mcall.dx)>>
          /\ Reads(mcall.ns, "trapz", mcall.y) \subseteq 0..(n - 1)

C19_Witness ==
    /\ Integrating("simps")
    /\ Len(mcall.y) = 5
    /\ mcall.y = <<R(2), R(-1), R(2), R(2), R(0)>>
    /\ mcall.dx = R(1)
    /\ mout.val = <<Rat(10, 3)>>
    /\ Reads(mcall.ns, "simps", mcall.y) = 0..4

(***************************************************************************)
(* C20: on the same samples and step, Leeds::integral/simps/trapz and      *)
(* QWWAD::integral/simps/trapz give the same outcome: the same value, or   *)
(* an error of the same class                                              *)
(***************************************************************************)
OtherNamespace(ns) == IF ns = "Leeds" THEN "QWWAD" ELSE "Leeds"

C20_SameOutcome ==
    \A fn \in {"integral", "simps", "trapz"} :
        Integrating(fn) =>
            LET other == Apply(OtherNamespace(mcall.ns), fn, mcall.y, mcall.dx)
            IN  /\ mout.kind = other.kind
                /\ mout.val = other.val

C20_Witness ==
    /\ Integrating("integral")
    /\ mcall.ns = "QWWAD"
    /\ Len(mcall.y) = 4
    /\ mout.kind = "value"
    /\ mout.val = Leeds_integral(mcall.y, mcall.dx).val
    /\ mout.val # <<R(0)>>

(***************************************************************************)
(* C21: in both overloads of Subband::read_from_file the sizes of the      *)
(* population and Fermi-energy tables are compared with the number of      *)
(* states before any P[ist] is read, so no read of P is out of range       *)
(***************************************************************************)
C21_SizesCheckedBeforePopulationRead ==
    /\ (rpc = "check" /\ rist < nst) =>
          /\ Len(rin.P) = nst
          /\ Len(rin.Ef) = nst
          /\ rist < Len(rin.P)
    /\ rout.kind # "killed"

(***************************************************************************)
(* C22: the effective mass given to each Subband by read_from_file is the  *)
(* mass-table entry at the smallest grid index where |psi| is largest over *)
(* the state, and the entry at index 0 when psi is zero everywhere         *)
(***************************************************************************)
\* the grid indices at which |psi| is the largest of the state
Peaks(psi) ==
    {i \in 0..(Len(psi) - 1) :
        \A k \in 0..(Len(psi) - 1) : RLe(RAbs(At(psi, k)), RAbs(At(psi, i)))}

FirstPeak(psi) == CHOOSE i \in Peaks(psi) : \A k \in Peaks(psi) : i <= k

ZeroEverywhere(psi) == \A k \in 0..(Len(psi) - 1) : At(psi, k) = R(0)

C22_MassAtFirstPeak ==
    rpc \in {"copy", "done"} =>
        \A j \in 1..Len(subbands) :
            LET psi == rin.ground_state[j].psi IN
            /\ subbands[j].md_0 = At(m_d_z, FirstPeak(psi))
            /\ ZeroEverywhere(psi) => subbands[j].md_0 = At(m_d_z, 0)

C22_Witness ==
    /\ rpc = "done"
    /\ Len(subbands) = 2
    /\ rin.ground_state[1].psi = <<R(1), R(-2), R(2)>>
    /\ subbands[1].md_0 = Rat(1, 2)
    /\ ZeroEverywhere(rin.ground_state[2].psi)
    /\ subbands[2].md_0 = R(1)

(***************************************************************************)
(* C23: the scan of d02D starts at the minimum potential less the binding  *)
(* estimate and goes up by delta_E; when it stops, y1*y2 <= 0 with y1 the  *)
(* residual at x - delta_E and y2 the residual at x, and every earlier     *)
(* pair of consecutive residuals had a product above zero                  *)
(***************************************************************************)
\* the energy of the scan after k steps
ScanEnergy(k) == DAdd[StartEnergy(dloc.lambda), DMul[R(k), dloc.delta_E]]

\* the product of the residuals before and after step k of the scan
ScanProduct(k) ==
    DMul[psi_at_inf(ScanEnergy(k - 1), dloc.lambda, well),
         psi_at_inf(ScanEnergy(k), dloc.lambda, well)]

\* p <= 0, which no NaN satisfies
NotAboveZero(p) == p # NaN /\ ~DGt[p, R(0)]

C23_BracketIsFirstSignChange ==
    dpc = "midpoint" =>
        /\ NotAboveZero(DMul[dloc.y1, dloc.y2])
        /\ dloc.y1 = psi_at_inf(DSub[dloc.x, dloc.delta_E], dloc.lambda, well)
        /\ dloc.y2 = psi_at_inf(dloc.x, dloc.lambda, well)
        /\ \E m \in 1..20 :
              /\ dloc.x = ScanEnergy(m)
              /\ \A k \in 1..(m - 1) : DGt[ScanProduct(k), R(0)]

(***************************************************************************)
(* C24: the midpoint estimate lies inside the bracket: for residuals y1,   *)
(* y2 with y1*y2 <= 0 that end the scan at x, the estimate                 *)
(* x - |y2|/(|y1|+|y2|)*delta_E is a finite energy in [x - delta_E, x]     *)
(***************************************************************************)
\* a <= b for doubles, which no NaN satisfies
DLe(a, b) == a # NaN /\ b # NaN /\ ~DGt[a, b]

C24_MidpointInsideBracket ==
    [][(dpc = "midpoint" /\ NotAboveZero(DMul[dloc.y1, dloc.y2]) /\ dpc' = "newton") =>
          /\ Finite(dloc'.x)
          /\ DLe(DSub[dloc.x, dloc.delta_E], dloc'.x)
          /\ DLe(dloc'.x, dloc.x)]_vars

(***************************************************************************)
(* C25: for each donor position x_min never increases during the loop over *)
(* lambda, and when the loop has ended the reported energy E is the        *)
(* minimum of 1 eV and the converged energies of the lambdas visited for   *)
(* that donor, and lambda_0 is the lambda at which x_min was last lowered  *)
(***************************************************************************)
\* the lines printed for donor d: one per lambda visited
Visited(d) == {k \in 1..Len(dout.printed) : dout.printed[k].r_d = d}

\* m is the least member of S
IsMinimum(m, S) == m \in S /\ \A e \in S : DLe(m, e)

\* lambda_0 is the lambda of the first line of donor d whose energy is m:
\* there x_min came down to m, and it did not come down again
LastLoweredAt(d, m) ==
    \E k \in Visited(d) :
        /\ dout.printed[k].energy = m
        /\ dout.printed[k].lambda = dloc.lambda_0
        /\ \A j \in Visited(d) : j < k => dout.printed[j].energy # m

\* donor d has been written out
Reported(d) ==
    /\ dloc.E = dloc.x_min
    /\ IsMinimum(dloc.E, {OneEV} \cup {dout.printed[k].energy : k \in Visited(d)})
    /\ LastLoweredAt(d, dloc.E)

InLambdaLoop == dpc \in {"lambda", "scan", "midpoint", "newton", "converged"}

C25_MinimumOverLambda ==
    [][/\ InLambdaLoop => DLe(dloc'.x_min, dloc.x_min)
       /\ dpc = "output" => Reported(dloc.i_d - 1)']_vars

LambdasVisited(d) == {dout.printed[k].lambda : k \in Visited(d)}

C27_BohrRadiusOfThisDonor ==
    /\ dpc = "output" =>
          /\ dloc.lambda_0 # Uninit
          /\ dloc.lambda_0 \in LambdasVisited(dloc.i_d)
          /\ \E k \in Visited(dloc.i_d) :
                /\ dout.printed[k].lambda = dloc.lambda_0
                /\ dout.printed[k].energy = dloc.x_min
    /\ (dpc = "donor" /\ dloc.i_d > 0) =>
          dout.l_r[dloc.i_d] \in LambdasVisited(dloc.i_d - 1)

(***************************************************************************)
(* C28: in wavefunctions() the sample stored at grid index i pairs the     *)
(* position z_i with the value of the shooting recurrence that belongs to  *)
(* z_i, so that no two neighbouring samples are copies of one value        *)
(***************************************************************************)
C28_SampleBelongsToPosition ==
    wpc = "filled" =>
        /\ \A i \in 0..(win.n - 1) :
              /\ At(wout.wf_start, i).a = R(i)
              /\ At(wout.wf_start, i).b[1] = shooting(win.growth, win.V, i)
        /\ \A i \in 0..(win.n - 2) :
              shooting(win.growth, win.V, i) # shooting(win.growth, win.V, i + 1)
                  => At(wout.wf_start, i).b # At(wout.wf_start, i + 1).b

(***************************************************************************)
(* C29: in ado, for every wanted transition and every sample ki of the     *)
(* initial wave-vector, kf_sqr >= 0, so that the assertion on it never     *)
(* fails: with a cut-off given, with the default one, and after the        *)
(* cut-off has been extended                                               *)
(***************************************************************************)
C29_FinalWaveVectorIsReal ==
    /\ apc # "aborted"
    /\ (apc = "ki" /\ aloc.kf_sqr # Uninit) => DLe(R(0), aloc.kf_sqr)

(***************************************************************************)
(* C30: in efiwire, for every state and every grid row izy = iy*N + iz the *)
(* row written to the file of the state holds y = iy*Ly/(N-1) and          *)
(* z = iz*Lz/(N-1), so that the grid covers [0, Ly] x [0, Lz]              *)
(***************************************************************************)
\* the files cd(in_y)(in_z).r written so far
WireFiles == {k \in 1..Len(fout) : fout[k].in_y > 0}

C30_GridCoversCrossSection ==
    \A k \in WireFiles :
        \A iy \in 0..(fin.N - 1), iz \in 0..(fin.N - 1) :
            LET row == At(fout[k].rows, iy * fin.N + iz) IN
            /\ row[1] = RDiv(RMul(R(iy), fin.Ly), R(fin.N - 1))
            /\ row[2] = RDiv(RMul(R(iz), fin.Lz), R(fin.N - 1))
====
